---- MODULE Spec2Model ----
(***************************************************************************)
(* A model of the multi-factor scoring engine of Trade Pilot X             *)
(* (src/api/core/scoring_engine.py, class ScoringEngine).                  *)
(*                                                                         *)
(* Python values are tagged records [t, n, s]: t is the Python type,       *)
(* n the number in hundredths (1.0 is 100, so 1.01 is 101 and 0.5 is 50),  *)
(* s the string.  A dictionary key that is missing is the value Absent,    *)
(* which is what distinguishes {"trend": None} from {}.                    *)
(***************************************************************************)
EXTENDS Integers, Sequences, FiniteSets, TLC

VARIABLES
    weights,     \* self.weights of the engine
    clock,       \* what datetime.now() reads
    asset_data,  \* the observation the caller holds
    calls,       \* the calls of calculate_asset_score made so far, with what each returned
    assets,      \* the list the caller hands to rank_assets
    ranked,      \* what rank_assets did with it
    threads,     \* the calls of calculate_asset_score under way, one per thread
    frames,      \* the local variables of each call under way
    master,      \* the MasterLogicEngine: its two tables and what its last call did
    full         \* the EdgeFinderFullEngine: what its last call did

vars == <<weights, clock, asset_data, calls, assets, ranked, threads, frames, master, full>>

----------------------------------------------------------------------------
(* Bounds of the model *)

MaxCalls == 3
MaxClock == 1
MaxAssets == 3
MaxThreads == 2

----------------------------------------------------------------------------
(* Python values *)

Absent == [t |-> "absent", n |-> 0, s |-> ""]
None == [t |-> "none", n |-> 0, s |-> ""]
Num(x) == [t |-> "num", n |-> x, s |-> ""]
Str(x) == [t |-> "str", n |-> 0, s |-> x]
Bool(b) == [t |-> "bool", n |-> IF b THEN 100 ELSE 0, s |-> ""]

\* dict.get(key, default): the default only when the key is missing
Get(v, default) == IF v.t = "absent" THEN default ELSE v

\* int, float and bool order against a number; anything else raises TypeError
IsNumber(v) == v.t \in {"num", "bool"}

\* str.lower() on the strings the feeds use
Lower(s) ==
    CASE s \in {"Bullish", "BULLISH"} -> "bullish"
      [] s \in {"Bearish", "BEARISH"} -> "bearish"
      [] s \in {"Neutral", "NEUTRAL"} -> "neutral"
      [] s \in {"High", "HIGH"} -> "high"
      [] s \in {"Normal", "NORMAL"} -> "normal"
      [] s \in {"Low", "LOW"} -> "low"
      [] OTHER -> s

\* what a scorer does: returns an int, or raises
Ok(x) == [exc |-> "", v |-> x]
Raise(e) == [exc |-> e, v |-> 0]

Max(a, b) == IF a >= b THEN a ELSE b
Min(a, b) == IF a <= b THEN a ELSE b

----------------------------------------------------------------------------
(* The sections of an observation *)

Technical(trend, a20, a50, a100, a200, vol) ==
    [t |-> "dict", trend |-> trend, above_20_sma |-> a20, above_50_sma |-> a50,
     above_100_sma |-> a100, above_200_sma |-> a200, volatility |-> vol]
Cot(positioning, weekly_change) ==
    [t |-> "dict", positioning |-> positioning, weekly_change |-> weekly_change]
Retail(long_pct, short_pct) ==
    [t |-> "dict", long_pct |-> long_pct, short_pct |-> short_pct]
Seasonality(avg) ==
    [t |-> "dict", current_month_avg_return |-> avg]

\* the 14 keys _calculate_eco_score reads, in the order of its metrics dict
EcoKeys ==
    <<"gdp_surprise", "mPMI_surprise", "sPMI_surprise", "retail_surprise",
      "cpi_surprise", "ppi_surprise", "pce_surprise", "rate_surprise",
      "confidence_surprise", "nfp_surprise", "unemployment_surprise",
      "claims_surprise", "adp_surprise", "jolts_surprise">>
EcoKeySet == {EcoKeys[i] : i \in 1..Len(EcoKeys)}
Economic(m) == [t |-> "dict", m |-> m]

\* a section that is no dict: the key is missing, or holds None
NoTechnical(tag) == [Technical(Absent, Absent, Absent, Absent, Absent, Absent) EXCEPT !.t = tag]
NoCot(tag) == [Cot(Absent, Absent) EXCEPT !.t = tag]
NoRetail(tag) == [Retail(Absent, Absent) EXCEPT !.t = tag]
NoEconomic(tag) == [Economic([k \in EcoKeySet |-> Absent]) EXCEPT !.t = tag]
NoSeasonality(tag) == [Seasonality(Absent) EXCEPT !.t = tag]

\* asset_data.get("technical", {}) and its like: {} for a missing key
EmptyTechnical == NoTechnical("dict")
EmptyCot == NoCot("dict")
EmptyRetail == NoRetail("dict")
EmptyEconomic == NoEconomic("dict")
EmptySeasonality == NoSeasonality("dict")

AssetData(symbol, technical, cot, retail, economic, seasonality) ==
    [t |-> "dict", symbol |-> symbol, technical |-> technical, cot |-> cot,
     retail |-> retail, economic |-> economic, seasonality |-> seasonality]

----------------------------------------------------------------------------
(* The four scorers.  A technical score is kept in twentieths until it is  *)
(* rounded: the trend is 2 = 40/20, an SMA flag 0.25 = 5/20, and the high  *)
(* volatility factor 0.8 takes a multiple of 5/20 to a multiple of 4/20.   *)

\* a variant that rounds a tie upwards
PyRoundHalfUp(x20) ==
    LET q == x20 \div 20
        r == x20 % 20
    IN  IF r < 10 THEN q ELSE q + 1

\* round(x) of Python 3 for x = x20/20: to the nearest integer, ties to even
PyRound(x20) ==
    LET q == x20 \div 20
        r == x20 % 20
    IN  IF r < 10 THEN q
        ELSE IF r > 10 THEN q + 1
        ELSE IF q % 2 = 0 THEN q ELSE q + 1

\* lines 118-123
TrendScore(trend) ==
    IF trend = "bullish" THEN 40
    ELSE IF trend = "bearish" THEN -40
    ELSE 0

\* a variant that counts every known flag as a flag above
SmaStepUnsigned(above) ==
    IF above.t = "bool" THEN 5 ELSE 0

\* one pass of "for sma, above in sma_scores.items()"
SmaStep(above) ==
    IF above.t = "bool" /\ above.n = 100 THEN 5
    ELSE IF above.t = "bool" /\ above.n = 0 THEN -5
    ELSE 0

\* a variant that rounds first and damps the rounded score
VolatilityAfterRounding(score, volatility) ==
    IF volatility = "high"
    THEN LET q == score \div 20
             r == score % 20
             rounded == IF r < 10 THEN q
                        ELSE IF r > 10 THEN q + 1
                        ELSE IF q % 2 = 0 THEN q ELSE q + 1
         IN  (rounded * 20 * 4) \div 5
    ELSE score

\* a variant whose factor for high volatility is 1.2
VolatilityAmplify(score, volatility) ==
    IF volatility = "high" THEN (score * 6) \div 5 ELSE score

\* a variant without the damping of high volatility
VolatilityIgnored(score, volatility) == score

\* lines 141-143
VolatilityAdjust(score, volatility) ==
    IF volatility = "high" THEN (score * 4) \div 5 ELSE score

\* line 146
TechnicalCap(score) == Max(-3, Min(3, PyRound(score)))

_calculate_technical_score(technical) ==
    IF technical.t # "dict" THEN Raise("AttributeError")
    ELSE
    LET trend == Get(technical.trend, Str("neutral")) IN
    IF trend.t # "str" THEN Raise("AttributeError")
    ELSE
    LET score == TrendScore(Lower(trend.s))
                 + SmaStep(Get(technical.above_20_sma, None))
                 + SmaStep(Get(technical.above_50_sma, None))
                 + SmaStep(Get(technical.above_100_sma, None))
                 + SmaStep(Get(technical.above_200_sma, None))
        volatility == Get(technical.volatility, Str("normal"))
    IN  IF volatility.t # "str" THEN Raise("AttributeError")
        ELSE Ok(TechnicalCap(VolatilityAdjust(score, Lower(volatility.s))))

\* lines 164-167
PositioningScore(cot_positioning) ==
    IF cot_positioning = "bullish" THEN 1
    ELSE IF cot_positioning = "bearish" THEN -1
    ELSE 0

\* a variant whose thresholds include the boundary
ChangeScoreInclusive(cot_change) ==
    IF cot_change >= 200 THEN 1
    ELSE IF cot_change <= -200 THEN -1
    ELSE 0

\* lines 171-174, the change in hundredths of a percent
ChangeScore(cot_change) ==
    IF cot_change > 200 THEN 1
    ELSE IF cot_change < -200 THEN -1
    ELSE 0

\* a variant whose default is 0 for 50
DefaultLongPctZero == Num(0)

\* retail.get("long_pct", 50)
DefaultLongPct == Num(5000)

\* a variant that follows the crowd: +1 for a long crowd, -1 for a short one
RetailScoreFollowing(retail_long_pct) ==
    IF retail_long_pct > 6000 THEN 1
    ELSE IF retail_long_pct < 4000 THEN -1
    ELSE 0

\* lines 180-183, the share in hundredths of a percent
RetailScore(retail_long_pct) ==
    IF retail_long_pct > 6000 THEN -1
    ELSE IF retail_long_pct < 4000 THEN 1
    ELSE 0

\* a variant that lets three agreeing votes count as three
SentimentCapThree(score) == Max(-3, Min(3, score))

\* line 186
SentimentCap(score) == Max(-2, Min(2, score))

_calculate_sentiment_score(cot, retail) ==
    IF cot.t # "dict" THEN Raise("AttributeError")
    ELSE
    LET cot_positioning == Get(cot.positioning, Str("neutral")) IN
    IF cot_positioning.t # "str" THEN Raise("AttributeError")
    ELSE
    LET cot_change == Get(cot.weekly_change, Num(0)) IN
    IF ~IsNumber(cot_change) THEN Raise("TypeError")
    ELSE IF retail.t # "dict" THEN Raise("AttributeError")
    ELSE
    LET retail_long_pct == Get(retail.long_pct, DefaultLongPct) IN
    IF ~IsNumber(retail_long_pct) THEN Raise("TypeError")
    ELSE Ok(SentimentCap(PositioningScore(Lower(cot_positioning.s))
                         + ChangeScore(cot_change.n)
                         + RetailScore(retail_long_pct.n)))

\* a variant that counts the GDP surprise twice
RECURSIVE EcoLoopGdpTwice(_, _, _)
EcoLoopGdpTwice(economic, i, score) ==
    IF i > Len(EcoKeys) THEN Ok(score)
    ELSE
    LET surprise == Get(economic.m[EcoKeys[i]], Num(0))
        weight == IF EcoKeys[i] = "gdp_surprise" THEN 2 ELSE 1
    IN
    IF surprise.t = "none" THEN EcoLoopGdpTwice(economic, i + 1, score)
    ELSE IF IsNumber(surprise) /\ surprise.n = 0 THEN EcoLoopGdpTwice(economic, i + 1, score)
    ELSE IF ~IsNumber(surprise) THEN Raise("TypeError")
    ELSE IF surprise.n > 0 THEN EcoLoopGdpTwice(economic, i + 1, score + weight)
    ELSE EcoLoopGdpTwice(economic, i + 1, score - weight)

\* a variant that goes over every entry of the mapping, whatever its name
RECURSIVE EcoLoopAllEntries(_, _, _)
EcoLoopAllEntries(economic, i, score) ==
    IF i > Len(EcoKeys)
    THEN LET others == DOMAIN economic.m \ EcoKeySet IN
         Ok(score + Cardinality({k \in others : economic.m[k].t = "num" /\ economic.m[k].n > 0})
                  - Cardinality({k \in others : economic.m[k].t = "num" /\ economic.m[k].n < 0}))
    ELSE
    LET surprise == Get(economic.m[EcoKeys[i]], Num(0)) IN
    IF surprise.t = "none" THEN EcoLoopAllEntries(economic, i + 1, score)
    ELSE IF IsNumber(surprise) /\ surprise.n = 0 THEN EcoLoopAllEntries(economic, i + 1, score)
    ELSE IF ~IsNumber(surprise) THEN Raise("TypeError")
    ELSE IF surprise.n > 0 THEN EcoLoopAllEntries(economic, i + 1, score + 1)
    ELSE EcoLoopAllEntries(economic, i + 1, score - 1)

\* "for metric, surprise in metrics.items()" from the i-th metric on
RECURSIVE EcoLoop(_, _, _)
EcoLoop(economic, i, score) ==
    IF i > Len(EcoKeys) THEN Ok(score)
    ELSE
    LET surprise == Get(economic.m[EcoKeys[i]], Num(0)) IN
    IF surprise.t = "none" THEN EcoLoop(economic, i + 1, score)
    ELSE IF IsNumber(surprise) /\ surprise.n = 0 THEN EcoLoop(economic, i + 1, score)
    ELSE IF ~IsNumber(surprise) THEN Raise("TypeError")
    ELSE IF surprise.n > 0 THEN EcoLoop(economic, i + 1, score + 1)
    ELSE EcoLoop(economic, i + 1, score - 1)

\* a variant without the cap of line 242
EcoUncapped(score) == score

\* line 242
EcoCap(score) == Max(-5, Min(5, score))

_calculate_eco_score(economic) ==
    IF economic.t # "dict" THEN Raise("AttributeError")
    ELSE
    LET looped == EcoLoop(economic, 1, 0) IN
    IF looped.exc # "" THEN looped
    ELSE Ok(EcoCap(looped.v))

\* a variant whose thresholds are inclusive (>= for >, <= for <)
SeasonalityStepInclusive(current_month_avg) ==
    IF current_month_avg >= 100 THEN 2
    ELSE IF current_month_avg >= 50 THEN 1
    ELSE IF current_month_avg <= -100 THEN -2
    ELSE IF current_month_avg <= -50 THEN -1
    ELSE 0

\* a variant whose lowest threshold includes the boundary
SeasonalityStepLowInclusive(current_month_avg) ==
    IF current_month_avg > 100 THEN 2
    ELSE IF current_month_avg > 50 THEN 1
    ELSE IF current_month_avg <= -100 THEN -2
    ELSE IF current_month_avg < -50 THEN -1
    ELSE 0

\* lines 254-263, the return in hundredths of a percent
SeasonalityStep(current_month_avg) ==
    IF current_month_avg > 100 THEN 2
    ELSE IF current_month_avg > 50 THEN 1
    ELSE IF current_month_avg < -100 THEN -2
    ELSE IF current_month_avg < -50 THEN -1
    ELSE 0

_calculate_seasonality_score(seasonality) ==
    IF seasonality.t # "dict" THEN Raise("AttributeError")
    ELSE
    LET current_month_avg == Get(seasonality.current_month_avg_return, Num(0)) IN
    IF ~IsNumber(current_month_avg) THEN Raise("TypeError")
    ELSE Ok(SeasonalityStep(current_month_avg.n))

\* a variant whose top rung is strict (> 8 for >= 8)
BiasStrictTop(total_score) ==
    IF total_score > 8 THEN "Very Bullish"
    ELSE IF total_score >= 3 THEN "Bullish"
    ELSE IF total_score > -3 THEN "Neutral"
    ELSE IF total_score > -8 THEN "Bearish"
    ELSE "Very Bearish"

\* a variant with two labels of the bearish side exchanged
BiasLabelsSwapped(total_score) ==
    IF total_score >= 8 THEN "Very Bullish"
    ELSE IF total_score >= 5 THEN "Bullish"
    ELSE IF total_score >= 3 THEN "Bullish"
    ELSE IF total_score > 0 THEN "Neutral"
    ELSE IF total_score = 0 THEN "Neutral"
    ELSE IF total_score > -3 THEN "Bearish"
    ELSE IF total_score > -5 THEN "Neutral"
    ELSE IF total_score > -8 THEN "Bearish"
    ELSE "Very Bearish"

_determine_bias(total_score) ==
    IF total_score >= 8 THEN "Very Bullish"
    ELSE IF total_score >= 5 THEN "Bullish"
    ELSE IF total_score >= 3 THEN "Bullish"
    ELSE IF total_score > 0 THEN "Neutral"
    ELSE IF total_score = 0 THEN "Neutral"
    ELSE IF total_score > -3 THEN "Neutral"
    ELSE IF total_score > -5 THEN "Bearish"
    ELSE IF total_score > -8 THEN "Bearish"
    ELSE "Very Bearish"

----------------------------------------------------------------------------
(* calculate_asset_score: what a call returns or raises.  A report is a    *)
(* record whose DOMAIN is the set of keys of the returned dict.            *)

Return(value) == [kind |-> "return", value |-> value]
Raised(e) == [kind |-> "raise", exc |-> e]

\* lines 85-90: the sections as the caller gave them, {} for a missing one
Breakdown(data) ==
    [technical |-> Get(data.technical, EmptyTechnical),
     cot |-> Get(data.cot, EmptyCot),
     retail |-> Get(data.retail, EmptyRetail),
     economic |-> Get(data.economic, EmptyEconomic)]

\* a variant that takes the month from the clock: the seasonality bonus
\* counts only while the clock reads an even value
ScoreReportByMonth(symbol, technical_score, sentiment_score, eco_score, seasonality_bonus, now, data) ==
    LET bonus == IF now % 2 = 0 THEN seasonality_bonus ELSE 0
        total_score == technical_score + sentiment_score + eco_score + bonus
    IN  [symbol |-> symbol,
         total_score |-> total_score,
         technical_score |-> technical_score,
         sentiment_score |-> sentiment_score,
         eco_score |-> eco_score,
         seasonality_score |-> bonus,
         bias |-> _determine_bias(total_score),
         timestamp |-> now,
         breakdown |-> Breakdown(data)]

\* lines 70-91: the total, the bias and the returned dict
\* a variant that applies self.weights to the three weighted parts
ScoreReportWeighted(symbol, technical_score, sentiment_score, eco_score, seasonality_bonus, now, data) ==
    LET total_score == (weights.technical * technical_score
                        + weights.sentiment * sentiment_score
                        + weights.eco * eco_score) \div 100 + seasonality_bonus IN
    [symbol |-> symbol,
     total_score |-> total_score,
     technical_score |-> technical_score,
     sentiment_score |-> sentiment_score,
     eco_score |-> eco_score,
     seasonality_score |-> seasonality_bonus,
     bias |-> _determine_bias(total_score),
     timestamp |-> now,
     breakdown |-> Breakdown(data)]

ScoreReport(symbol, technical_score, sentiment_score, eco_score, seasonality_bonus, now, data) ==
    LET total_score == technical_score + sentiment_score + eco_score + seasonality_bonus IN
    [symbol |-> symbol,
     total_score |-> total_score,
     technical_score |-> technical_score,
     sentiment_score |-> sentiment_score,
     eco_score |-> eco_score,
     seasonality_score |-> seasonality_bonus,
     bias |-> _determine_bias(total_score),
     timestamp |-> now,
     breakdown |-> Breakdown(data)]

\* a variant that puts a failed asset below every scored one
ErrorReportLast(symbol, e) ==
    [symbol |-> symbol,
     total_score |-> -13,
     technical_score |-> 0,
     sentiment_score |-> 0,
     eco_score |-> 0,
     bias |-> "Neutral",
     error |-> e]

\* the dict of lines 95-103
ErrorReport(symbol, e) ==
    [symbol |-> symbol,
     total_score |-> 0,
     technical_score |-> 0,
     sentiment_score |-> 0,
     eco_score |-> 0,
     bias |-> "Neutral",
     error |-> e]

calculate_asset_score(data, now) ==
    IF data.t # "dict" THEN Raised("AttributeError")
    ELSE
    LET symbol == Get(data.symbol, Str("UNKNOWN"))
        technical_score == _calculate_technical_score(Get(data.technical, EmptyTechnical))
        sentiment_score == _calculate_sentiment_score(Get(data.cot, EmptyCot),
                                                      Get(data.retail, EmptyRetail))
        eco_score == _calculate_eco_score(Get(data.economic, EmptyEconomic))
        seasonality_bonus == _calculate_seasonality_score(Get(data.seasonality, EmptySeasonality))
    IN  IF technical_score.exc # "" THEN Return(ErrorReport(symbol, technical_score.exc))
        ELSE IF sentiment_score.exc # "" THEN Return(ErrorReport(symbol, sentiment_score.exc))
        ELSE IF eco_score.exc # "" THEN Return(ErrorReport(symbol, eco_score.exc))
        ELSE IF seasonality_bonus.exc # "" THEN Return(ErrorReport(symbol, seasonality_bonus.exc))
        ELSE Return(ScoreReport(symbol, technical_score.v, sentiment_score.v, eco_score.v,
                                seasonality_bonus.v, now, data))

----------------------------------------------------------------------------
(* rank_assets *)

\* a variant that is not stable: an element goes before the elements of its own total_score
RECURSIVE InsertBeforeTies(_, _)
InsertBeforeTies(sorted, x) ==
    IF sorted = <<>> THEN <<x>>
    ELSE IF Head(sorted).total_score > x.total_score
         THEN <<Head(sorted)>> \o InsertBeforeTies(Tail(sorted), x)
         ELSE <<x>> \o sorted

\* list.sort(key=total_score, reverse=True) is stable: an element goes behind
\* every element already placed whose total_score is not smaller
RECURSIVE InsertDescending(_, _)
InsertDescending(sorted, x) ==
    IF sorted = <<>> THEN <<x>>
    ELSE IF Head(sorted).total_score >= x.total_score
         THEN <<Head(sorted)>> \o InsertDescending(Tail(sorted), x)
         ELSE <<x>> \o sorted

RECURSIVE SortDescending(_, _)
SortDescending(sorted, rest) ==
    IF rest = <<>> THEN sorted
    ELSE SortDescending(InsertDescending(sorted, Head(rest)), Tail(rest))

\* a variant whose reports leak from one asset to the next: each report after
\* the first repeats the report before it under the new symbol
RECURSIVE ScoreLoopReusing(_, _, _)
ScoreLoopReusing(list, now, scored_assets) ==
    IF list = <<>> THEN Return(scored_assets)
    ELSE
    LET score_result == calculate_asset_score(Head(list), now) IN
    IF score_result.kind = "raise" THEN score_result
    ELSE ScoreLoopReusing(Tail(list), now,
            Append(scored_assets,
                   IF scored_assets = <<>> THEN score_result.value
                   ELSE [scored_assets[Len(scored_assets)]
                            EXCEPT !.symbol = score_result.value.symbol]))

\* "for asset_data in assets": the first call that raises ends the loop
RECURSIVE ScoreLoop(_, _, _)
ScoreLoop(list, now, scored_assets) ==
    IF list = <<>> THEN Return(scored_assets)
    ELSE
    LET score_result == calculate_asset_score(Head(list), now) IN
    IF score_result.kind = "raise" THEN score_result
    ELSE ScoreLoop(Tail(list), now, Append(scored_assets, score_result.value))

rank_assets(list, now) ==
    LET scored == ScoreLoop(list, now, <<>>) IN
    IF scored.kind = "raise" THEN scored
    ELSE Return(SortDescending(<<>>, scored.value))

----------------------------------------------------------------------------
(* The observations the model scores.  One section ranges over its full    *)
(* set of values while the others take a neutral or an extreme value, so   *)
(* that every total from -12 to 12 is scored.                              *)

T == Bool(TRUE)
F == Bool(FALSE)

TinyTechnical ==
    {NoTechnical("absent"),
     Technical(Str("Bullish"), T, T, T, T, Absent),
     Technical(Str("bearish"), F, F, F, F, Str("normal"))}
FullTechnical ==
    {NoTechnical("absent"), NoTechnical("none")}
    \cup {Technical(trend, a20, rest, rest, rest, vol) :
            trend \in {Absent, None, Str("Bullish"), Str("bearish"), Str("neutral"), Str("sideways")},
            a20 \in {T, F, Absent},
            rest \in {T, F, None},
            vol \in {Absent, None, Str("High"), Str("normal")}}

\* institutional and retail sections, together
TinySentiment ==
    {<<NoCot("absent"), NoRetail("absent")>>,
     <<Cot(Str("bullish"), Num(300)), Retail(Num(2500), Num(7500))>>,
     <<Cot(Str("Bearish"), Num(-300)), Retail(Num(7500), Absent)>>}
FullSentiment ==
    {<<NoCot("none"), NoRetail("absent")>>, <<NoCot("absent"), NoRetail("none")>>,
     <<NoCot("absent"), NoRetail("absent")>>}
    \cup {<<Cot(positioning, weekly_change), Retail(long_pct, Absent)>> :
            positioning \in {Absent, None, Str("Bullish"), Str("bearish")},
            weekly_change \in {Absent, Num(-300), Num(-200), Num(200), Num(247), Str("n/a")},
            long_pct \in {Absent, None, Str("75%"), Num(3999), Num(4000), Num(5572),
                          Num(6000), Num(6001), Num(7500)}}

\* p metrics beat, the next n miss, the others hold rest
EcoPattern(p, n, rest) ==
    Economic([k \in EcoKeySet |->
        LET i == CHOOSE j \in 1..Len(EcoKeys) : EcoKeys[j] = k IN
        IF i <= p THEN Num(100)
        ELSE IF i <= p + n THEN Num(-100)
        ELSE rest])
TinyEconomic ==
    {NoEconomic("absent"), EcoPattern(14, 0, Absent), EcoPattern(0, 14, Absent)}
FullEconomic ==
    {NoEconomic("absent"), NoEconomic("none")}
    \cup {EcoPattern(p, n, rest) :
            p \in {0, 1, 2, 4, 6, 7},
            n \in {0, 1, 2, 4, 6, 7},
            rest \in {Absent, None, Num(0), Str("n/a")}}

TinySeasonality ==
    {NoSeasonality("absent"), Seasonality(Num(150)), Seasonality(Num(-150))}
FullSeasonality ==
    {NoSeasonality("absent"), NoSeasonality("none")}
    \cup {Seasonality(avg) :
            avg \in {Absent, None, Str("1.0")}
                    \cup {Num(x) : x \in {-150, -101, -100, -99, -51, -50, -49, 0,
                                          49, 50, 51, 99, 100, 101, 107, 150}}}

Observations ==
    {AssetData(Str("USOIL"), technical, s[1], s[2], economic, seasonality) :
        technical \in FullTechnical, s \in TinySentiment,
        economic \in TinyEconomic, seasonality \in TinySeasonality}
    \cup {AssetData(Str("USOIL"), technical, s[1], s[2], economic, seasonality) :
        technical \in TinyTechnical, s \in FullSentiment,
        economic \in TinyEconomic, seasonality \in TinySeasonality}
    \cup {AssetData(Str("USOIL"), technical, s[1], s[2], economic, seasonality) :
        technical \in TinyTechnical, s \in TinySentiment,
        economic \in FullEconomic, seasonality \in TinySeasonality}
    \cup {AssetData(Str("USOIL"), technical, s[1], s[2], economic, seasonality) :
        technical \in TinyTechnical, s \in TinySentiment,
        economic \in TinyEconomic, seasonality \in FullSeasonality}
    \cup {AssetData(symbol, technical, s[1], s[2], economic, seasonality) :
        symbol \in {Absent, None, Str("")},
        technical \in TinyTechnical, s \in TinySentiment,
        economic \in {NoEconomic("absent")}, seasonality \in {NoSeasonality("absent")}}

\* the assets of a batch: one of four symbols, with a total of 5, 5, 0, -1,
\* or a retail section that cannot be scored
RankSymbols == {"A", "B", "C", "D"}
RankProfiles ==
    {<<NoTechnical("absent"), NoCot("absent"), NoRetail("absent"),
       EcoPattern(6, 1, Absent), NoSeasonality("absent")>>,
     <<Technical(Str("bullish"), T, T, T, T, Absent), Cot(Str("bullish"), Num(247)),
       NoRetail("absent"), NoEconomic("absent"), NoSeasonality("absent")>>,
     <<NoTechnical("absent"), NoCot("absent"), NoRetail("absent"),
       NoEconomic("absent"), NoSeasonality("absent")>>,
     <<NoTechnical("absent"), NoCot("absent"), NoRetail("absent"),
       NoEconomic("absent"), Seasonality(Num(-75))>>,
     <<Technical(Str("bullish"), T, T, T, T, Absent), NoCot("absent"),
       Retail(Str("75%"), Absent), NoEconomic("absent"), NoSeasonality("absent")>>}
\* an element of the list that is no dict at all (None)
NotAMapping ==
    [AssetData(Absent, NoTechnical("absent"), NoCot("absent"), NoRetail("absent"),
               NoEconomic("absent"), NoSeasonality("absent")) EXCEPT !.t = "none"]
RankObservations ==
    {AssetData(Str(symbol), p[1], p[2], p[3], p[4], p[5]) :
        symbol \in RankSymbols, p \in RankProfiles} \cup {NotAMapping}

\* the lists of at most MaxAssets assets, no symbol twice
RECURSIVE Batches(_)
Batches(n) ==
    IF n = 0 THEN {<<>>}
    ELSE LET shorter == Batches(n - 1) IN
         shorter \cup {Append(b, o) : b \in {x \in shorter : Len(x) = n - 1},
                                      o \in RankObservations}
DistinctSymbols(b) ==
    \A i, j \in 1..Len(b) : i # j => b[i].symbol # b[j].symbol
RankInputs == {b \in Batches(MaxAssets) : DistinctSymbols(b)}

----------------------------------------------------------------------------
(* The engine and its callers *)

\* ScoringEngine.__init__
InitialWeights == [technical |-> 100, sentiment |-> 100, eco |-> 100]

NoResult == [kind |-> "none"]

\* the threads that call the engine; a thread that has not called yet, and
\* the local variables of a call that has not assigned them yet
Threads == 1..MaxThreads
IdleThread ==
    [pc |-> "idle",
     arg |-> AssetData(Absent, NoTechnical("absent"), NoCot("absent"), NoRetail("absent"),
                       NoEconomic("absent"), NoSeasonality("absent")),
     ret |-> NoResult]
NoLocals ==
    [symbol |-> Absent, technical_score |-> 0, sentiment_score |-> 0, eco_score |-> 0,
     seasonality_bonus |-> 0, e |-> ""]

\* the other two engines of the repository, while nobody has built them
NoMaster == [built |-> FALSE]
NoFull == [built |-> FALSE]

InitEngine ==
    /\ weights = InitialWeights
    /\ clock = 0
    /\ calls = <<>>
    /\ ranked = NoResult
    /\ threads = [t \in Threads |-> IdleThread]
    /\ frames = [t \in Threads |-> NoLocals]
    /\ master = NoMaster
    /\ full = NoFull

Init ==
    /\ InitEngine
    /\ asset_data \in Observations
    /\ assets = <<>>

\* time passes
Tick ==
    /\ clock < MaxClock
    /\ clock' = clock + 1
    /\ UNCHANGED <<weights, asset_data, calls, assets, ranked, threads, frames, master, full>>

\* a caller's engine.calculate_asset_score(data)
Call(data) ==
    /\ Len(calls) < MaxCalls
    /\ calls' = Append(calls, [arg |-> data, ret |-> calculate_asset_score(data, clock)])
    /\ UNCHANGED <<weights, clock, asset_data, assets, ranked, threads, frames, master, full>>

ScoreAsset == Call(asset_data)

Next == Tick \/ ScoreAsset

Spec == Init /\ [][Next]_vars

\* a caller's engine.rank_assets(assets)
RankAssets ==
    /\ ranked = NoResult
    /\ ranked' = [kind |-> "ranked", arg |-> assets, ret |-> rank_assets(assets, clock)]
    /\ UNCHANGED <<weights, clock, asset_data, calls, assets, threads, frames, master, full>>

InitRank ==
    /\ InitEngine
    /\ asset_data = AssetData(Absent, NoTechnical("absent"), NoCot("absent"),
                              NoRetail("absent"), NoEconomic("absent"), NoSeasonality("absent"))
    /\ assets \in RankInputs

NextRank == Tick \/ RankAssets

SpecRank == InitRank /\ [][NextRank]_vars

----------------------------------------------------------------------------
(* One observation scored again and again, as time passes and as other     *)
(* assets are scored in between.                                           *)

RepeatObservations ==
    {AssetData(Str("USOIL"), technical, s[1], s[2], NoEconomic("absent"), seasonality) :
        technical \in TinyTechnical, s \in TinySentiment, seasonality \in TinySeasonality}
    \cup {AssetData(Str("USOIL"), NoTechnical("absent"), NoCot("absent"),
                    Retail(long_pct, Absent), EcoPattern(4, 2, Absent), Seasonality(Num(107))) :
            long_pct \in {Num(5572), Str("75%")}}

OtherObservations ==
    {AssetData(Str("EURUSD"), Technical(Str("bearish"), F, F, T, T, Str("High")),
               Cot(Str("bearish"), Num(-300)), Retail(Num(7500), Num(2500)),
               EcoPattern(1, 6, Num(0)), Seasonality(Num(-75))),
     AssetData(Str("XAUUSD"), NoTechnical("none"), NoCot("absent"), NoRetail("absent"),
               NoEconomic("absent"), NoSeasonality("absent"))}

ScoreOther == \E other \in OtherObservations : Call(other)

InitRepeat ==
    /\ InitEngine
    /\ asset_data \in RepeatObservations
    /\ assets = <<>>

NextRepeat == Tick \/ ScoreAsset \/ ScoreOther

SpecRepeat == InitRepeat /\ [][NextRepeat]_vars

----------------------------------------------------------------------------
(* One observation scored under one retail long_pct after another, all     *)
(* else held fixed.                                                        *)

LongPcts == {0, 3900, 4000, 5900, 6000, 6100, 10000}

RetailObservations ==
    {AssetData(Str("USOIL"), NoTechnical("absent"), Cot(positioning, weekly_change),
               Retail(Num(long_pct), Absent), NoEconomic("absent"), NoSeasonality("absent")) :
        positioning \in {Absent, Str("Bullish"), Str("bearish")},
        weekly_change \in {Absent, Num(-300), Num(200), Num(247)},
        long_pct \in LongPcts}

\* the caller's observation with another long_pct
SetLongPct ==
    /\ \E long_pct \in LongPcts :
          asset_data' = [asset_data EXCEPT !.retail.long_pct = Num(long_pct)]
    /\ UNCHANGED <<weights, clock, calls, assets, ranked, threads, frames, master, full>>

InitRetail ==
    /\ InitEngine
    /\ asset_data \in RetailObservations
    /\ assets = <<>>

NextRetail == ScoreAsset \/ SetLongPct

SpecRetail == InitRetail /\ [][NextRetail]_vars

----------------------------------------------------------------------------
(* The technical section alone *)

\* a caller that scores one technical section: every trend, every
\* combination of the four SMA flags, every volatility
TechObservations ==
    {AssetData(Str("T"), Technical(trend, a20, a50, a100, a200, vol),
               NoCot("absent"), NoRetail("absent"), NoEconomic("absent"),
               NoSeasonality("absent")) :
        trend \in {Absent, Str("Bullish"), Str("bearish"), Str("Neutral")},
        a20 \in {T, F, Absent}, a50 \in {T, F, Absent},
        a100 \in {T, F, Absent}, a200 \in {T, F, None},
        vol \in {Absent, Str("Normal"), Str("High"), Str("high")}}

InitTech ==
    /\ InitEngine
    /\ asset_data \in TechObservations
    /\ assets = <<>>

NextTech == Tick \/ ScoreAsset

SpecTech == InitTech /\ [][NextTech]_vars

----------------------------------------------------------------------------
(* The sentiment sections alone *)

\* a caller that scores one COT positioning, weekly change and retail
\* long_pct, the values at, next to and far from each threshold
SentimentObservations ==
    {AssetData(Str("S"), NoTechnical("absent"), Cot(positioning, weekly_change),
               Retail(long_pct, Absent), NoEconomic("absent"), NoSeasonality("absent")) :
        positioning \in {Absent, Str("Bullish"), Str("Bearish"), Str("Neutral")},
        weekly_change \in {Absent, Num(-300), Num(-201), Num(-200), Num(0),
                           Num(200), Num(201), Num(300)},
        long_pct \in {Absent, Num(0), Num(3999), Num(4000), Num(5000), Num(6000),
                      Num(6001), Num(7500), Num(10000)}}

InitSentiment ==
    /\ InitEngine
    /\ asset_data \in SentimentObservations
    /\ assets = <<>>

NextSentiment == Tick \/ ScoreAsset

SpecSentiment == InitSentiment /\ [][NextSentiment]_vars

----------------------------------------------------------------------------
(* The economic section alone *)

\* p metrics hold beat, the next n hold miss, the others hold rest, counted
\* from the metric after the first shift ones and around
EcoSurprises(p, n, shift, beat, miss, rest) ==
    Economic([k \in EcoKeySet |->
        LET j == CHOOSE x \in 1..Len(EcoKeys) : EcoKeys[x] = k
            i == ((j - 1 + Len(EcoKeys) - shift) % Len(EcoKeys)) + 1
        IN  IF i <= p THEN beat
            ELSE IF i <= p + n THEN miss
            ELSE rest])

\* a caller that scores one set of surprises: every count of beats and misses,
\* small and large surprises, at two places among the 14 metrics
EcoObservations ==
    {AssetData(Str("E"), NoTechnical("absent"), NoCot("absent"), NoRetail("absent"),
               EcoSurprises(p, n, shift, size[1], size[2], rest),
               NoSeasonality("absent")) :
        p \in 0..Len(EcoKeys), n \in 0..Len(EcoKeys), shift \in {0, 5},
        size \in {<<Num(100), Num(-100)>>, <<Num(1), Num(-25000)>>,
                  <<Num(25000), Num(-1)>>},
        rest \in {Absent, Num(0)}}

InitEco ==
    /\ InitEngine
    /\ asset_data \in EcoObservations
    /\ assets = <<>>

NextEco == Tick \/ ScoreAsset

SpecEco == InitEco /\ [][NextEco]_vars

----------------------------------------------------------------------------
(* One observation scored and then changed in place by its caller.  The    *)
(* breakdown of a report holds the section dicts of the observation        *)
(* themselves (asset_data.get("technical", {}) returns the caller's dict,  *)
(* a new {} only for a missing key), so a change the caller makes inside   *)
(* a section shows in every report made from that observation.  The arg    *)
(* of a call stays the observation as it was when the call was made.       *)

AliasObservations ==
    {AssetData(Str("XAUUSD"), technical, Cot(Str("Bullish"), Num(247)), retail,
               NoEconomic("absent"), NoSeasonality("absent")) :
        technical \in {NoTechnical("absent"), EmptyTechnical,
                       Technical(Str("Bullish"), T, T, Absent, Absent, Str("Normal"))},
        retail \in {NoRetail("absent"), EmptyRetail, Retail(Num(4500), Num(5500))}}

\* the reports made so far, after the caller's section dict has changed
HasBreakdown(ret) == ret.kind = "return" /\ "breakdown" \in DOMAIN ret.value
WithTrend(report, trend) == [report EXCEPT !.breakdown.technical.trend = trend]
WithLongPct(report, long_pct) == [report EXCEPT !.breakdown.retail.long_pct = long_pct]

\* the caller's asset_data["technical"]["trend"] = trend
SetTrendInPlace ==
    /\ asset_data.technical.t = "dict"
    /\ \E trend \in {Str("Bullish"), Str("Bearish")} :
          /\ asset_data' = [asset_data EXCEPT !.technical.trend = trend]
          /\ calls' = [i \in 1..Len(calls) |->
                          IF HasBreakdown(calls[i].ret)
                          THEN [calls[i] EXCEPT !.ret.value = WithTrend(@, trend)]
                          ELSE calls[i]]
    /\ UNCHANGED <<weights, clock, assets, ranked, threads, frames, master, full>>

\* the caller's asset_data["retail"]["long_pct"] = long_pct
SetLongPctInPlace ==
    /\ asset_data.retail.t = "dict"
    /\ \E long_pct \in {Num(4500), Num(7500)} :
          /\ asset_data' = [asset_data EXCEPT !.retail.long_pct = long_pct]
          /\ calls' = [i \in 1..Len(calls) |->
                          IF HasBreakdown(calls[i].ret)
                          THEN [calls[i] EXCEPT !.ret.value = WithLongPct(@, long_pct)]
                          ELSE calls[i]]
    /\ UNCHANGED <<weights, clock, assets, ranked, threads, frames, master, full>>

InitAlias ==
    /\ InitEngine
    /\ asset_data \in AliasObservations
    /\ assets = <<>>

NextAlias == ScoreAsset \/ SetTrendInPlace \/ SetLongPctInPlace

SpecAlias == InitAlias /\ [][NextAlias]_vars

----------------------------------------------------------------------------
(* Calls of calculate_asset_score by several threads on one engine.  A     *)
(* call is a sequence of steps, one per statement that reads or writes     *)
(* anything: the symbol (line 54), the four scorers (lines 58-68), the     *)
(* report (lines 71-91) or the except branch (lines 93-103).  The steps    *)
(* of the threads interleave in every order.  symbol, technical_score,     *)
(* sentiment_score, eco_score, seasonality_bonus and e are local variables *)
(* of the call: each call has a frame of its own.                          *)

\* the observations the threads score: totals 5, -1 and -6, one that cannot
\* be scored, and one that is no dict
ConcObservations ==
    {AssetData(Str("A"), Technical(Str("bullish"), T, T, T, T, Absent),
               Cot(Str("bullish"), Num(247)), NoRetail("absent"), NoEconomic("absent"),
               NoSeasonality("absent")),
     AssetData(Str("B"), NoTechnical("absent"), NoCot("absent"), NoRetail("absent"),
               NoEconomic("absent"), Seasonality(Num(-75))),
     AssetData(Str("C"), Technical(Str("bearish"), F, F, Absent, Absent, Absent),
               NoCot("absent"), Retail(Num(7500), Absent), EcoPattern(1, 4, Absent),
               NoSeasonality("absent")),
     AssetData(Str("D"), Technical(Str("bullish"), T, T, T, T, Absent), NoCot("absent"),
               Retail(Str("75%"), Absent), NoEconomic("absent"), NoSeasonality("absent")),
     NotAMapping}

\* a variant that keeps the intermediate values on the engine: one frame for
\* all calls
FrameOfEngine(t) == 1

\* where the local variables of thread t's call live: in its own frame
FrameOf(t) == t

Local(t) == frames[FrameOf(t)]

\* thread t calls engine.calculate_asset_score(data)
Enter(t) ==
    /\ threads[t].pc = "idle"
    /\ \E data \in ConcObservations :
          threads' = [threads EXCEPT ![t] = [pc |-> "symbol", arg |-> data, ret |-> NoResult]]
    /\ UNCHANGED <<weights, clock, asset_data, calls, assets, ranked, frames, master, full>>

\* line 54, outside the try: raises for an observation that is no dict
ReadSymbol(t) ==
    /\ threads[t].pc = "symbol"
    /\ IF threads[t].arg.t # "dict"
       THEN /\ threads' = [threads EXCEPT ![t].pc = "done",
                                          ![t].ret = Raised("AttributeError")]
            /\ UNCHANGED frames
       ELSE /\ frames' = [frames EXCEPT ![FrameOf(t)].symbol =
                                            Get(threads[t].arg.symbol, Str("UNKNOWN"))]
            /\ threads' = [threads EXCEPT ![t].pc = "technical"]
    /\ UNCHANGED <<weights, clock, asset_data, calls, assets, ranked, master, full>>

\* a statement "name = scorer(...)" inside the try: the value is assigned and
\* the call goes on, or the scorer raises and the call goes to the except branch
Assign(t, name, scored, next) ==
    /\ IF scored.exc # ""
       THEN /\ frames' = [frames EXCEPT ![FrameOf(t)].e = scored.exc]
            /\ threads' = [threads EXCEPT ![t].pc = "except"]
       ELSE /\ frames' = [frames EXCEPT ![FrameOf(t)][name] = scored.v]
            /\ threads' = [threads EXCEPT ![t].pc = next]
    /\ UNCHANGED <<weights, clock, asset_data, calls, assets, ranked, master, full>>

\* line 58
StepTechnical(t) ==
    /\ threads[t].pc = "technical"
    /\ Assign(t, "technical_score",
              _calculate_technical_score(Get(threads[t].arg.technical, EmptyTechnical)),
              "sentiment")

\* lines 59-62
StepSentiment(t) ==
    /\ threads[t].pc = "sentiment"
    /\ Assign(t, "sentiment_score",
              _calculate_sentiment_score(Get(threads[t].arg.cot, EmptyCot),
                                         Get(threads[t].arg.retail, EmptyRetail)),
              "eco")

\* line 63
StepEco(t) ==
    /\ threads[t].pc = "eco"
    /\ Assign(t, "eco_score",
              _calculate_eco_score(Get(threads[t].arg.economic, EmptyEconomic)),
              "seasonality")

\* lines 66-68
StepSeasonality(t) ==
    /\ threads[t].pc = "seasonality"
    /\ Assign(t, "seasonality_bonus",
              _calculate_seasonality_score(Get(threads[t].arg.seasonality, EmptySeasonality)),
              "report")

\* lines 71-91: the total, the bias and the returned dict
StepReport(t) ==
    /\ threads[t].pc = "report"
    /\ threads' = [threads EXCEPT
                      ![t].pc = "done",
                      ![t].ret = Return(ScoreReport(Local(t).symbol, Local(t).technical_score,
                                                    Local(t).sentiment_score, Local(t).eco_score,
                                                    Local(t).seasonality_bonus, clock,
                                                    threads[t].arg))]
    /\ UNCHANGED <<weights, clock, asset_data, calls, assets, ranked, frames, master, full>>

\* lines 93-103
StepExcept(t) ==
    /\ threads[t].pc = "except"
    /\ threads' = [threads EXCEPT
                      ![t].pc = "done",
                      ![t].ret = Return(ErrorReport(Local(t).symbol, Local(t).e))]
    /\ UNCHANGED <<weights, clock, asset_data, calls, assets, ranked, frames, master, full>>

InitConc ==
    /\ InitEngine
    /\ asset_data = IdleThread.arg
    /\ assets = <<>>

NextConc ==
    \/ Tick
    \/ \E t \in Threads :
          \/ Enter(t)
          \/ ReadSymbol(t)
          \/ StepTechnical(t)
          \/ StepSentiment(t)
          \/ StepEco(t)
          \/ StepSeasonality(t)
          \/ StepReport(t)
          \/ StepExcept(t)

SpecConc == InitConc /\ [][NextConc]_vars

----------------------------------------------------------------------------
(* One technical section scored, changed in one input by the caller, and   *)
(* scored again: the volatility switched, one SMA flag or the trend raised *)

TechPairObservations ==
    {AssetData(Str("T"), Technical(trend, a20, a50, a100, a200, vol),
               NoCot("absent"), NoRetail("absent"), NoEconomic("absent"),
               NoSeasonality("absent")) :
        trend \in {Str("Bullish"), Str("Bearish"), Str("Neutral")},
        a20 \in {T, F, Absent}, a50 \in {T, F, Absent},
        a100 \in {T, F, Absent}, a200 \in {T, F, Absent},
        vol \in {Str("Normal"), Str("High")}}

SmaKeys == {"above_20_sma", "above_50_sma", "above_100_sma", "above_200_sma"}

\* how bullish an SMA flag and a trend are: below, unknown, above
FlagLevel(above) ==
    IF above.t = "bool" /\ above.n = 100 THEN 1
    ELSE IF above.t = "bool" /\ above.n = 0 THEN -1
    ELSE 0
TrendLevel(trend) ==
    IF trend.t # "str" THEN 0
    ELSE IF Lower(trend.s) = "bullish" THEN 1
    ELSE IF Lower(trend.s) = "bearish" THEN -1
    ELSE 0

\* the caller has scored the observation once and not changed it since
ScoredOnce == Len(calls) = 1 /\ asset_data = calls[1].arg

\* the caller's observation with the other volatility
SetVolatility ==
    /\ ScoredOnce
    /\ \E vol \in {Str("Normal"), Str("High")} :
          /\ vol # asset_data.technical.volatility
          /\ asset_data' = [asset_data EXCEPT !.technical.volatility = vol]
    /\ UNCHANGED <<weights, clock, calls, assets, ranked, threads, frames, master, full>>

\* the caller's observation with one SMA flag more bullish
RaiseSmaFlag ==
    /\ ScoredOnce
    /\ \E key \in SmaKeys, above \in {Absent, T} :
          /\ FlagLevel(above) > FlagLevel(asset_data.technical[key])
          /\ asset_data' = [asset_data EXCEPT !.technical[key] = above]
    /\ UNCHANGED <<weights, clock, calls, assets, ranked, threads, frames, master, full>>

\* the caller's observation with the trend one step more bullish
RaiseTrend ==
    /\ ScoredOnce
    /\ \E trend \in {Str("Neutral"), Str("Bullish")} :
          /\ TrendLevel(trend) = TrendLevel(asset_data.technical.trend) + 1
          /\ asset_data' = [asset_data EXCEPT !.technical.trend = trend]
    /\ UNCHANGED <<weights, clock, calls, assets, ranked, threads, frames, master, full>>

InitTechPair ==
    /\ InitEngine
    /\ asset_data \in TechPairObservations
    /\ assets = <<>>

NextTechPair == ScoreAsset \/ SetVolatility \/ RaiseSmaFlag \/ RaiseTrend

SpecTechPair == InitTechPair /\ [][NextTechPair]_vars

----------------------------------------------------------------------------
(* Two assets scored one after the other, of any two totals *)

\* an observation whose economic score is e, with the first k of seasonality,
\* sentiment and technical at their extreme on the side of e: the totals are
\* e, e +- 2, e +- 4 and e +- 7
TotalObservation(e, k) ==
    LET up == e >= 0 IN
    AssetData(Str("X"),
              IF k < 3 THEN NoTechnical("absent")
              ELSE IF up THEN Technical(Str("Bullish"), T, T, T, T, Absent)
              ELSE Technical(Str("Bearish"), F, F, F, F, Absent),
              IF k < 2 THEN NoCot("absent")
              ELSE IF up THEN Cot(Str("Bullish"), Num(300))
              ELSE Cot(Str("Bearish"), Num(-300)),
              NoRetail("absent"),
              IF up THEN EcoPattern(e, 0, Absent) ELSE EcoPattern(0, -e, Absent),
              IF k < 1 THEN NoSeasonality("absent")
              ELSE IF up THEN Seasonality(Num(150))
              ELSE Seasonality(Num(-150)))
TotalObservations == {TotalObservation(e, k) : e \in -5..5, k \in 0..3}

\* the caller turns to another asset
TakeAsset ==
    /\ ScoredOnce
    /\ asset_data' \in TotalObservations \ {asset_data}
    /\ UNCHANGED <<weights, clock, calls, assets, ranked, threads, frames, master, full>>

InitBias ==
    /\ InitEngine
    /\ asset_data \in TotalObservations
    /\ assets = <<>>

NextBias == ScoreAsset \/ TakeAsset

SpecBias == InitBias /\ [][NextBias]_vars

----------------------------------------------------------------------------
(* One observation scored, the weights of the engine set to other values   *)
(* by the caller, and the observation scored and ranked again              *)

WeightValues == {0, 100, 250}
WeightObservations ==
    {TotalObservation(e, k) : e \in {-5, -2, 3}, k \in {0, 3}}

\* the caller's engine.weights = {...}
SetWeights ==
    /\ ScoredOnce
    /\ \E technical \in WeightValues, sentiment \in WeightValues, eco \in WeightValues :
          /\ weights' = [technical |-> technical, sentiment |-> sentiment, eco |-> eco]
          /\ weights' # weights
    /\ UNCHANGED <<clock, asset_data, calls, assets, ranked, threads, frames, master, full>>

InitWeights ==
    /\ InitEngine
    /\ asset_data \in WeightObservations
    /\ assets = <<asset_data>>

NextWeights == ScoreAsset \/ SetWeights \/ RankAssets

SpecWeights == InitWeights /\ [][NextWeights]_vars

----------------------------------------------------------------------------
(* One economic section scored, changed by the caller in an entry that     *)
(* carries no surprise, and scored again.  The mapping may hold entries    *)
(* under names the scorer does not read.                                   *)

\* names of entries that are none of the 14 keys
OtherKeys == {"gdp", "m2_surprise"}

\* an entry without a surprise: the key missing, None, or 0
NoSurprise == {Absent, None, Num(0)}

\* p metrics beat, the next n miss, the others hold rest; no other entry
EcoFrameObservations ==
    {AssetData(Str("E"), NoTechnical("absent"), NoCot("absent"), NoRetail("absent"),
               Economic([k \in EcoKeySet \cup OtherKeys |->
                            IF k \in EcoKeySet THEN EcoPattern(pn[1], pn[2], rest).m[k]
                            ELSE Absent]),
               NoSeasonality("absent")) :
        pn \in {<<0, 0>>, <<4, 2>>, <<2, 3>>, <<7, 0>>, <<0, 6>>, <<1, 1>>},
        rest \in NoSurprise}

\* the caller's economic[key] set to None or 0, or deleted, for a metric
\* that carried no surprise
SetNoSurprise ==
    /\ ScoredOnce
    /\ \E key \in EcoKeySet, surprise \in NoSurprise :
          /\ asset_data.economic.m[key] \in NoSurprise \ {surprise}
          /\ asset_data' = [asset_data EXCEPT !.economic.m[key] = surprise]
    /\ UNCHANGED <<weights, clock, calls, assets, ranked, threads, frames, master, full>>

\* the caller's economic[key] set or deleted for a name that is no metric
SetOtherEntry ==
    /\ ScoredOnce
    /\ \E key \in OtherKeys, value \in {Absent, Num(500), Num(-500), Str("n/a")} :
          /\ asset_data.economic.m[key] # value
          /\ asset_data' = [asset_data EXCEPT !.economic.m[key] = value]
    /\ UNCHANGED <<weights, clock, calls, assets, ranked, threads, frames, master, full>>

InitEcoFrame ==
    /\ InitEngine
    /\ asset_data \in EcoFrameObservations
    /\ assets = <<>>

NextEcoFrame == ScoreAsset \/ SetNoSurprise \/ SetOtherEntry

SpecEcoFrame == InitEcoFrame /\ [][NextEcoFrame]_vars

----------------------------------------------------------------------------
(* Assets one of whose sections cannot be scored, scored alone and ranked  *)
(* among others                                                            *)

\* sections that score 3, 2 and 5, and four profiles in which the first
\* scorer to fail is the technical, the sentiment, the economic and the
\* seasonality one; two profiles that score 5 and -1
FailProfiles ==
    LET tech == Technical(Str("Bullish"), T, T, T, T, Absent)
        cot == Cot(Str("Bullish"), Num(300))
        eco == EcoPattern(6, 0, Absent)
    IN  {<<Technical(Num(500), T, T, T, T, Absent), cot, NoRetail("absent"), eco,
           NoSeasonality("absent")>>,
         <<tech, cot, Retail(Str("75%"), Absent), eco, NoSeasonality("absent")>>,
         <<tech, cot, Retail(Num(2500), Absent), EcoPattern(1, 0, Str("n/a")),
           NoSeasonality("absent")>>,
         <<tech, cot, Retail(Num(2500), Absent), eco, Seasonality(Str("1.0"))>>,
         <<tech, cot, NoRetail("absent"), NoEconomic("absent"), NoSeasonality("absent")>>,
         <<NoTechnical("absent"), NoCot("absent"), NoRetail("absent"),
           NoEconomic("absent"), Seasonality(Num(-75))>>}
FailBatches ==
    {<<AssetData(Str("A"), a[1], a[2], a[3], a[4], a[5]),
       AssetData(Str("B"), b[1], b[2], b[3], b[4], b[5]),
       AssetData(Str("C"), c[1], c[2], c[3], c[4], c[5])>> :
        a \in FailProfiles, b \in FailProfiles, c \in FailProfiles}

InitFail ==
    /\ InitEngine
    /\ assets \in FailBatches
    /\ asset_data = assets[1]

NextFail == Tick \/ ScoreAsset \/ RankAssets

SpecFail == InitFail /\ [][NextFail]_vars

----------------------------------------------------------------------------
(* One observation scored, mirrored by the caller, and scored again *)

\* the mirror image of a value: the other direction, the other side of an
\* SMA, the negated number, the share of the other side
MirrorWord(v) ==
    IF v.t # "str" THEN v
    ELSE CASE v.s = "Bullish" -> Str("Bearish")
           [] v.s = "Bearish" -> Str("Bullish")
           [] v.s = "bullish" -> Str("bearish")
           [] v.s = "bearish" -> Str("bullish")
           [] OTHER -> v
MirrorFlag(v) == IF v = T THEN F ELSE IF v = F THEN T ELSE v
MirrorNumber(v) == IF v.t = "num" THEN Num(-v.n) ELSE v
MirrorShare(v) == IF v.t = "num" THEN Num(10000 - v.n) ELSE v

\* the mirror image of an observation; the volatility stays
Mirror(o) ==
    [o EXCEPT
        !.technical.trend = MirrorWord(@),
        !.technical.above_20_sma = MirrorFlag(@),
        !.technical.above_50_sma = MirrorFlag(@),
        !.technical.above_100_sma = MirrorFlag(@),
        !.technical.above_200_sma = MirrorFlag(@),
        !.cot.positioning = MirrorWord(@),
        !.cot.weekly_change = MirrorNumber(@),
        !.retail.long_pct = MirrorShare(@),
        !.retail.short_pct = MirrorShare(@),
        !.economic.m = [k \in DOMAIN @ |-> MirrorNumber(@[k])],
        !.seasonality.current_month_avg_return = MirrorNumber(@)]

\* observations of every technical, sentiment, economic and seasonality
\* input, one section at a time, and of every total
MirrorObservations ==
    {AssetData(Str("M"), Technical(trend, a20, a50, a100, a200, vol),
               NoCot("absent"), NoRetail("absent"), NoEconomic("absent"),
               NoSeasonality("absent")) :
        trend \in {Absent, Str("Bullish"), Str("bearish"), Str("Neutral")},
        a20 \in {T, F, Absent}, a50 \in {T, F, Absent},
        a100 \in {T, F, Absent}, a200 \in {T, F, Absent},
        vol \in {Absent, Str("High")}}
    \cup SentimentObservations
    \cup {AssetData(Str("M"), NoTechnical("absent"), NoCot("absent"), NoRetail("absent"),
                    EcoPattern(p, n, rest), NoSeasonality("absent")) :
            p \in 0..7, n \in 0..7, rest \in {Absent, Num(0)}}
    \cup {AssetData(Str("M"), NoTechnical("absent"), NoCot("absent"), NoRetail("absent"),
                    NoEconomic("absent"), Seasonality(avg)) :
            avg \in {Absent, Num(-150), Num(-100), Num(-75), Num(-50), Num(0),
                     Num(50), Num(75), Num(100), Num(150)}}
    \cup TotalObservations

\* the caller mirrors the observation
MirrorAsset ==
    /\ ScoredOnce
    /\ asset_data' = Mirror(asset_data)
    /\ UNCHANGED <<weights, clock, calls, assets, ranked, threads, frames, master, full>>

InitMirror ==
    /\ InitEngine
    /\ asset_data \in MirrorObservations
    /\ assets = <<>>

NextMirror == ScoreAsset \/ MirrorAsset

SpecMirror == InitMirror /\ [][NextMirror]_vars

----------------------------------------------------------------------------
(***************************************************************************)
(* MasterLogicEngine (backend/app/core/master_logic.py) with the two feeds *)
(* its constructor reads: the COT report of cot_fetcher.py and the retail  *)
(* table of real_data.py.  Scores are in hundredths as everywhere else:    *)
(* 1.5 is 150, a COT score of 2 is 200.  Percentages of the retail table   *)
(* are the whole numbers the table holds.                                  *)
(***************************************************************************)

\* the closing prices a download can end with
MaxPrice == 2

\* a float: a price level, or the NaN that rolling(n).mean() gives for
\* fewer than n closes
NaN == [nan |-> TRUE, v |-> 0]
Price(x) == [nan |-> FALSE, v |-> x]

\* a > b on floats: every comparison with NaN is False
GreaterThan(a, b) == ~a.nan /\ ~b.nan /\ a.v > b.v

\* the markets fetch_latest_cot looks for (its mapping, lines 39-46)
CotMapping == {"GOLD", "EURUSD", "USDJPY", "GBPUSD", "USOIL", "BTC"}

\* lines 57-61, on perc_long = longs / (longs + shorts) * 100 with
\* longs + shorts > 0: perc_long >= 70 is longs * 100 >= 70 * (longs + shorts)
CotReportScore(longs, shorts) ==
    IF longs * 100 >= 70 * (longs + shorts) THEN 200
    ELSE IF longs * 100 >= 60 * (longs + shorts) THEN 100
    ELSE IF longs * 100 <= 30 * (longs + shorts) THEN -200
    ELSE IF longs * 100 <= 40 * (longs + shorts) THEN -100
    ELSE 0

\* round(x, 1) for x = num / den in hundredths, num >= 0: to the nearest
\* tenth, ties to even
RoundOneDecimal(num, den) ==
    LET q == (num * 10) \div den
        r == (num * 10) % den
    IN  IF 2 * r < den THEN q * 10
        ELSE IF 2 * r > den THEN (q + 1) * 10
        ELSE IF q % 2 = 0 THEN q * 10 ELSE (q + 1) * 10

\* the date of the latest report, as strftime writes it
LatestDate == "2024-12-31"

\* lines 52-67: what one matching row of the report becomes
CotEntry(longs, shorts) ==
    [t |-> "dict",
     score |-> CotReportScore(longs, shorts),
     perc_long |-> Num(RoundOneDecimal(longs * 100, longs + shorts)),
     date |-> LatestDate]

\* a dict value that is a string, as the value of the key "error" is
CotMessage(s) == [t |-> "str", s |-> s]

\* {"error": ...}, lines 26 and 70
CotError(s) == [k \in {"error"} |-> CotMessage(s)]

\* what the two downloads of lines 21-25 and the filter of lines 34-36
\* leave: nothing (no status 200), or the rows of the latest date as
\* market |-> <<longs, shorts>>
NoReport == [ok |-> FALSE, rows |-> <<>>]
Report(rows) == [ok |-> TRUE, rows |-> rows]

\* COTFetcher.fetch_latest_cot.  int / int raises ZeroDivisionError for a
\* row with no positions at all, which line 69 turns into the error dict.
fetch_latest_cot(file) ==
    IF ~file.ok THEN CotError("CFTC Endpoint Inaccessible")
    ELSE IF \E a \in DOMAIN file.rows \cap CotMapping :
                file.rows[a][1] + file.rows[a][2] = 0
         THEN CotError("division by zero")
    ELSE [a \in DOMAIN file.rows \cap CotMapping |->
              CotEntry(file.rows[a][1], file.rows[a][2])]

\* RealTimeIntelligence.get_myfxbook_sentiment: the table of lines 32-36,
\* or {} when the request raised
SentimentTable ==
    [k \in {"XAUUSD", "EURUSD", "SPX500"} |->
        CASE k = "XAUUSD" -> [long |-> 72, short |-> 28, bias |-> "Bearish (Contrarian)"]
          [] k = "EURUSD" -> [long |-> 45, short |-> 55, bias |-> "Neutral"]
          [] k = "SPX500" -> [long |-> 38, short |-> 62, bias |-> "Bullish (Contrarian)"]]
get_myfxbook_sentiment(failed) == IF failed THEN <<>> ELSE SentimentTable

\* MasterLogicEngine.__init__
MasterLogicEngine(file, failed) ==
    [built |-> TRUE,
     cot_data |-> fetch_latest_cot(file),
     sentiment_data |-> get_myfxbook_sentiment(failed),
     out |-> NoResult]

\* a variant that takes 1.5 away for a price below the 200 day average
MasterTechScoreSigned(curr_price, sma50, sma200) ==
    (IF GreaterThan(curr_price, sma200) THEN 150 ELSE -150)
    + (IF GreaterThan(sma50, sma200) THEN 150 ELSE -150)

\* lines 41-43
MasterTechScore(curr_price, sma50, sma200) ==
    (IF GreaterThan(curr_price, sma200) THEN 150 ELSE 0)
    + (IF GreaterThan(sma50, sma200) THEN 150 ELSE 0)

\* line 47: self.cot_data.get(asset_name, {})
MasterCotInfo(cot_data, asset_name) ==
    IF asset_name \in DOMAIN cot_data THEN cot_data[asset_name] ELSE [t |-> "dict"]

\* line 48: cot_info.get("score", 0)
MasterCotScore(cot_info) ==
    IF "score" \in DOMAIN cot_info THEN cot_info.score ELSE 0

\* line 68: cot_info.get("perc_long", "--")
MasterNetLong(cot_info) ==
    IF "perc_long" \in DOMAIN cot_info THEN cot_info.perc_long ELSE Str("--")

\* line 51: self.sentiment_data.get(asset_name, {"long": 50, "short": 50})
MasterRetailInfo(sentiment_data, asset_name) ==
    IF asset_name \in DOMAIN sentiment_data THEN sentiment_data[asset_name]
    ELSE [long |-> 50, short |-> 50]

\* lines 52-56
MasterRetailScore(retail_info) ==
    IF retail_info.long > 70 THEN -200
    ELSE IF retail_info.short > 70 THEN 200
    ELSE IF retail_info.long > 60 THEN -100
    ELSE IF retail_info.short > 60 THEN 100
    ELSE 0

\* line 64
MasterBias(total) ==
    IF total >= 500 THEN "STRONG BUY"
    ELSE IF total <= -500 THEN "STRONG SELL"
    ELSE "NEUTRAL"

\* what yf.download hands back: no rows, or closes of which the engine
\* reads the last one and the two rolling means
NoCloses == [empty |-> TRUE, curr |-> NaN, sma50 |-> NaN, sma200 |-> NaN]
Closes(curr, sma50, sma200) ==
    [empty |-> FALSE, curr |-> curr, sma50 |-> sma50, sma200 |-> sma200]

\* MasterLogicEngine.get_real_trade_analysis, lines 27-72: the dict it
\* returns, or the exception it raises
get_real_trade_analysis(self, df, ticker, asset_name) ==
    IF df.empty THEN [kind |-> "raise", exc |-> "ValueError", ticker |-> ticker]
    ELSE
    LET tech_score == MasterTechScore(df.curr, df.sma50, df.sma200)
        cot_info == MasterCotInfo(self.cot_data, asset_name)
    IN  IF cot_info.t = "str"
        THEN [kind |-> "raise", exc |-> "AttributeError", ticker |-> ticker]
        ELSE
        LET cot_score == MasterCotScore(cot_info)
            retail_info == MasterRetailInfo(self.sentiment_data, asset_name)
            retail_score == MasterRetailScore(retail_info)
            total == tech_score + cot_score + retail_score
        IN  [kind |-> "return",
             v |-> [symbol |-> asset_name,
                    price |-> df.curr,
                    bias |-> MasterBias(total),
                    score |-> RoundOneDecimal(IF total >= 0 THEN total ELSE -total, 100)
                              * (IF total >= 0 THEN 1 ELSE -1),
                    breakdown |->
                        [technical |->
                            [score |-> tech_score,
                             status |-> IF GreaterThan(df.curr, df.sma200)
                                        THEN "Above 200 SMA" ELSE "Below 200 SMA"],
                         institutional |->
                            [score |-> cot_score, net_long |-> MasterNetLong(cot_info)],
                         retail |->
                            [score |-> retail_score, long_pct |-> retail_info.long]],
                    trades_active |->
                        IF asset_name = "XAUUSD"
                        THEN <<"XAUUSD Long @ 2640 (Discord Signal)">> ELSE <<>>]]

----------------------------------------------------------------------------
(* SpecMaster: an engine built from some COT report and the retail table,  *)
(* asked for one analysis after another.                                   *)

\* the rows of a report: non-commercial longs and shorts out of 20
\* contracts, on the four thresholds and between them, and a row without any
ReportRows ==
    {<<6, 14>>, <<8, 12>>, <<9, 11>>, <<12, 8>>, <<14, 6>>, <<0, 0>>}

\* the reports: gold and the euro with any row or none, the other four
\* markets with an even row; and the report that cannot be fetched
Reports ==
    {NoReport}
    \cup
    {Report([a \in gold[1] \cup euro[1] \cup (CotMapping \ {"GOLD", "EURUSD"}) |->
                IF a = "GOLD" THEN gold[2]
                ELSE IF a = "EURUSD" THEN euro[2]
                ELSE <<10, 10>>]) :
        gold \in ({{"GOLD"}} \X ReportRows) \cup {<<{}, <<0, 0>>>>},
        euro \in ({{"EURUSD"}} \X ReportRows) \cup {<<{}, <<0, 0>>>>}}

\* the requests of main.py and main_master.py, and two more names
Requests ==
    {<<"GC=F", "GOLD">>, <<"BTC-USD", "BITCOIN">>, <<"CL=F", "OIL">>,
     <<"EURUSD=X", "EURUSD">>, <<"JPY=X", "USDJPY">>, <<"CL=F", "USOIL">>,
     <<"^GSPC", "SPX500">>, <<"GC=F", "XAUUSD">>, <<"GC=F", "error">>}

\* a year of closes: a 200 day mean needs the 50 day mean to exist
Floats == {Price(x) : x \in 1..MaxPrice} \cup {NaN}
Downloads ==
    {NoCloses}
    \cup {Closes(c, s50, s200) : <<c, s50, s200>> \in
            {p \in Floats \X Floats \X Floats : p[2].nan => p[3].nan}}

GetRealTradeAnalysis ==
    /\ master.built
    /\ \E req \in Requests, df \in Downloads :
          master' = [master EXCEPT
                        !.out = get_real_trade_analysis(master, df, req[1], req[2])]
    /\ UNCHANGED <<weights, clock, asset_data, calls, assets, ranked, threads, frames, full>>

InitMaster ==
    /\ weights = InitialWeights
    /\ clock = 0
    /\ asset_data = IdleThread.arg
    /\ calls = <<>>
    /\ assets = <<>>
    /\ ranked = NoResult
    /\ threads = [t \in Threads |-> IdleThread]
    /\ frames = [t \in Threads |-> NoLocals]
    /\ full = NoFull
    /\ \E file \in Reports, failed \in BOOLEAN :
          master = MasterLogicEngine(file, failed)

NextMaster == GetRealTradeAnalysis

SpecMaster == InitMaster /\ [][NextMaster]_vars

----------------------------------------------------------------------------
(***************************************************************************)
(* EdgeFinderFullEngine (api/core/full_engine.py).  Its scores are whole   *)
(* numbers and are kept as such; the numbers of the metrics file are       *)
(* values in hundredths like those of an observation, and so are the       *)
(* three targets.                                                          *)
(***************************************************************************)

\* {} where a default is one
EmptyDict == [t |-> "dict", n |-> 0, s |-> ""]

\* the labels _get_live_technicals writes, line 65 and 68
SmaPeriods == <<"20d SMA", "50d SMA", "100d SMA", "200d SMA">>

\* what yf.download hands back to _get_live_technicals: no rows, or the
\* last close and the last value of the four rolling means
NoRows == [empty |-> TRUE, curr |-> NaN, means |-> <<>>]
Rows(curr, means) == [empty |-> FALSE, curr |-> curr, means |-> means]

\* lines 56-70
_get_live_technicals(df) ==
    IF df.empty THEN [price |-> Price(0), smas |-> <<>>]
    ELSE [price |-> df.curr,
          smas |-> [k \in {SmaPeriods[i] : i \in 1..4} |->
                       LET i == CHOOSE j \in 1..4 : SmaPeriods[j] = k
                       IN  IF GreaterThan(df.curr, df.means[i])
                           THEN "Bullish" ELSE "Bearish"]]

\* the entry of one asset in the metrics file: its four sections, each a
\* dict, missing, or something that is no dict
DeepCot(net_positioning) == [t |-> "dict", net_positioning |-> net_positioning]
DeepRetail(sentiment_pct, bias) ==
    [t |-> "dict", sentiment_pct |-> sentiment_pct, bias |-> bias]
DeepFundamental(eco_growth, jobs_market, inflation) ==
    [t |-> "dict", eco_growth |-> eco_growth, jobs_market |-> jobs_market,
     inflation |-> inflation]
NoDeepCot(tag) == [DeepCot(Absent) EXCEPT !.t = tag]
NoDeepRetail(tag) == [DeepRetail(Absent, Absent) EXCEPT !.t = tag]
NoDeepFundamental(tag) == [DeepFundamental(Absent, Absent, Absent) EXCEPT !.t = tag]
DeepData(technical, cot, retail, fundamental) ==
    [t |-> "dict", technical |-> technical, cot |-> cot, retail |-> retail,
     fundamental |-> fundamental]

\* {}: every section missing
EmptyDeep ==
    DeepData(Absent, NoDeepCot("absent"), NoDeepRetail("absent"),
             NoDeepFundamental("absent"))

\* the metrics file: not there, or a dict of entries by asset name
NoFile == [exists |-> FALSE, data |-> <<>>]
File(data) == [exists |-> TRUE, data |-> data]

\* lines 72-77
_load_deep_metrics(file, asset) ==
    IF file.exists
    THEN IF asset \in DOMAIN file.data THEN file.data[asset] ELSE EmptyDeep
    ELSE EmptyDeep

\* deep.get(key, {}) for a section: {} when the key is missing
SectionOr(section, empty) == IF section.t = "absent" THEN empty ELSE section

\* line 82: all(...) over the values of the map, True for no values
AllBullish(smas) == \A k \in DOMAIN smas : smas[k] = "Bullish"

\* a variant that counts a share of exactly 60 as crowded
SentScoreInclusive(sentiment_pct) ==
    IF sentiment_pct.n >= 6000 THEN 1 ELSE -1

\* line 84, for a number
SentScore(sentiment_pct) ==
    IF sentiment_pct.n > 6000 THEN 1 ELSE -1

\* lines 79-95: the dict of scores, or the exception
_calculate_complex_scores(live, deep) ==
    LET t_score == IF AllBullish(live.smas) THEN 1 ELSE -1
        cot == SectionOr(deep.cot, NoDeepCot("dict"))
        retail == SectionOr(deep.retail, NoDeepRetail("dict"))
        sentiment_pct == Get(retail.sentiment_pct, Num(5000))
    IN  IF deep.t # "dict" \/ cot.t # "dict" \/ retail.t # "dict"
        THEN Raise("AttributeError")
        ELSE IF ~IsNumber(sentiment_pct) THEN Raise("TypeError")
        ELSE
        LET cot_score == IF cot.net_positioning = Str("Bullish") THEN 2 ELSE -2
            sent_score == SentScore(sentiment_pct)
            eco == 3
            jobs == -3
            inf == 1
        IN  Ok([tech |-> t_score, cot |-> cot_score, sent |-> sent_score,
                eco |-> eco, jobs |-> jobs, inf |-> inf,
                total |-> t_score + cot_score + sent_score + eco + jobs + inf])

\* lines 97-102
_get_bias_label(s) ==
    IF s >= 7 THEN "Strong Buy"
    ELSE IF s >= 3 THEN "Buy"
    ELSE IF s <= -7 THEN "Strong Sell"
    ELSE IF s <= -3 THEN "Sell"
    ELSE "Neutral"

\* round(x, 2) for x = num / den, num >= 0, in hundredths: ties to even
RoundTwoDecimals(num, den) ==
    LET q == (num * 100) \div den
        r == (num * 100) % den
    IN  IF 2 * r < den THEN q
        ELSE IF 2 * r > den THEN q + 1
        ELSE IF q % 2 = 0 THEN q ELSE q + 1

\* lines 104-105; a NaN stays one
_calc_targets(p) ==
    IF p.nan THEN <<NaN, NaN, NaN>>
    ELSE <<Num(RoundTwoDecimals(p.v * 102, 100)),
           Num(RoundTwoDecimals(p.v * 104, 100)),
           Num(RoundTwoDecimals(p.v * 98, 100))>>

\* lines 14-54: the dict get_full_asset_analysis returns, or the exception
get_full_asset_analysis(file, df, ticker, asset_name) ==
    LET live_tech == _get_live_technicals(df)
        deep_data == _load_deep_metrics(file, asset_name)
        scored == _calculate_complex_scores(live_tech, deep_data)
        scores == scored.v
        retail == SectionOr(deep_data.retail, NoDeepRetail("dict"))
        fundamental == SectionOr(deep_data.fundamental, NoDeepFundamental("dict"))
    IN  IF scored.exc # "" THEN [kind |-> "raise", exc |-> scored.exc]
        ELSE IF fundamental.t # "dict" THEN [kind |-> "raise", exc |-> "AttributeError"]
        ELSE
        [kind |-> "return",
         v |-> [symbol |-> asset_name,
                ticker |-> ticker,
                price |-> live_tech.price,
                bias_score |-> scores.total,
                bias_label |-> _get_bias_label(scores.total),
                targets |-> _calc_targets(live_tech.price),
                panels |->
                    [technical |->
                        [signal |-> IF scores.tech > 0 THEN "Bullish" ELSE "Bearish",
                         score |-> scores.tech,
                         metrics |-> Get(deep_data.technical, EmptyDict),
                         smas |-> live_tech.smas],
                     institutional |->
                        [signal |-> IF scores.cot > 0 THEN "Bullish" ELSE "Bearish",
                         score |-> scores.cot,
                         metrics |-> SectionOr(deep_data.cot, NoDeepCot("dict"))],
                     sentiment |->
                        [signal |-> Get(retail.bias, Str("Neutral")),
                         score |-> scores.sent,
                         metrics |-> retail],
                     fundamental |->
                        [eco_growth |->
                            [score |-> scores.eco,
                             metrics |-> Get(fundamental.eco_growth, EmptyDict)],
                         jobs_market |->
                            [score |-> scores.jobs,
                             metrics |-> Get(fundamental.jobs_market, EmptyDict)],
                         inflation |->
                            [score |-> scores.inf,
                             metrics |-> Get(fundamental.inflation, EmptyDict)]]]]]

\* EdgeFinderFullEngine.__init__, with the file its metrics_path names
EdgeFinderFullEngine(file) == [built |-> TRUE, metrics |-> file, out |-> NoResult]

----------------------------------------------------------------------------
(* SpecFull: an engine beside some metrics file, asked for one analysis    *)
(* after another.                                                          *)

\* what the file says of net positioning and of the retail share
Positionings == {Absent, None, Str("Bullish"), Str("Bearish"), Str("bullish")}
SentimentPcts ==
    {Absent, None, Num(5000), Num(6000), Num(6050), Num(6100), Str("65%")}

\* the entries of an asset: every pair of a COT and a retail section, then
\* the other two sections present, and the entry that is null
DeepEntries ==
    {DeepData(Absent, cot, retail, NoDeepFundamental("absent")) :
        cot \in {NoDeepCot("absent"), NoDeepCot("none")}
                \cup {DeepCot(p) : p \in Positionings},
        retail \in {NoDeepRetail("absent"), NoDeepRetail("none")}
                   \cup {DeepRetail(s, Str("Bearish")) : s \in SentimentPcts}
                   \cup {DeepRetail(Num(7200), Absent)}}
    \cup
    {DeepData(EmptyDict, DeepCot(Str("Bullish")), DeepRetail(Num(7200), Str("Bearish")), f) :
        f \in {NoDeepFundamental("none"), DeepFundamental(EmptyDict, Absent, EmptyDict)}}
    \cup
    {[EmptyDeep EXCEPT !.t = "none"]}

\* the files: none, or one that knows gold and nothing else
MetricsFiles ==
    {NoFile} \cup {File([a \in {"XAUUSD"} |-> e]) : e \in DeepEntries}

\* the two requests of main_1to1.py
FullRequests == {<<"GC=F", "XAUUSD">>, <<"^GSPC", "SPX500">>}

\* a year of closes: the mean of a longer window exists only if that of
\* every shorter window does
LiveDownloads ==
    {NoRows}
    \cup {Rows(c, m) : <<c, m>> \in
            {p \in Floats \X [1..4 -> Floats] :
                \A i \in 1..3 : p[2][i].nan => p[2][i + 1].nan}}

GetFullAssetAnalysis ==
    /\ full.built
    /\ \E req \in FullRequests, df \in LiveDownloads :
          full' = [full EXCEPT
                      !.out = get_full_asset_analysis(full.metrics, df, req[1], req[2])]
    /\ UNCHANGED <<weights, clock, asset_data, calls, assets, ranked, threads, frames, master>>

InitFull ==
    /\ weights = InitialWeights
    /\ clock = 0
    /\ asset_data = IdleThread.arg
    /\ calls = <<>>
    /\ assets = <<>>
    /\ ranked = NoResult
    /\ threads = [t \in Threads |-> IdleThread]
    /\ frames = [t \in Threads |-> NoLocals]
    /\ master = NoMaster
    /\ \E file \in MetricsFiles : full = EdgeFinderFullEngine(file)

NextFull == GetFullAssetAnalysis

SpecFull == InitFull /\ [][NextFull]_vars

----------------------------------------------------------------------------
(* Properties of calculate_asset_score, stated on the calls made *)

CallIds == 1..Len(calls)

ScoreKeys == {"technical_score", "sentiment_score", "eco_score", "seasonality_score"}

\* the report of a computation that did not fail
IsScored(ret) == ret.kind = "return" /\ "error" \notin DOMAIN ret.value

\* an observation whose every field is of its documented type, or missing
ValidTechnical(x) ==
    \/ x.t = "absent"
    \/ /\ x.t = "dict"
       /\ x.trend.t \in {"absent", "str"}
       /\ \A a \in {x.above_20_sma, x.above_50_sma, x.above_100_sma, x.above_200_sma} :
            a.t \in {"absent", "none", "bool"}
       /\ x.volatility.t \in {"absent", "str"}
ValidCot(x) ==
    \/ x.t = "absent"
    \/ x.t = "dict" /\ x.positioning.t \in {"absent", "str"} /\ x.weekly_change.t \in {"absent", "num"}
ValidRetail(x) ==
    \/ x.t = "absent"
    \/ x.t = "dict" /\ x.long_pct.t \in {"absent", "num"}
ValidEconomic(x) ==
    \/ x.t = "absent"
    \/ x.t = "dict" /\ \A k \in EcoKeySet : x.m[k].t \in {"absent", "none", "num"}
ValidSeasonality(x) ==
    \/ x.t = "absent"
    \/ x.t = "dict" /\ x.current_month_avg_return.t \in {"absent", "num"}
ValidObservation(o) ==
    /\ o.t = "dict"
    /\ ValidTechnical(o.technical)
    /\ ValidCot(o.cot)
    /\ ValidRetail(o.retail)
    /\ ValidEconomic(o.economic)
    /\ ValidSeasonality(o.seasonality)

\* C1: for every well-typed observation the returned report carries the four
\* sub-scores, technical in [-3,3], sentiment in [-2,2], eco in [-5,5] and
\* seasonality in [-2,2], all integers.
C1_SubScoresInRange ==
    \A i \in CallIds :
        ValidObservation(calls[i].arg) =>
            LET ret == calls[i].ret IN
            /\ ret.kind = "return"
            /\ ScoreKeys \subseteq DOMAIN ret.value
            /\ ret.value.technical_score \in -3..3
            /\ ret.value.sentiment_score \in -2..2
            /\ ret.value.eco_score \in -5..5
            /\ ret.value.seasonality_score \in -2..2

\* a well-typed observation scored at three of the four caps, 14 metrics beating
C1_Witness ==
    \E i \in CallIds :
        /\ ValidObservation(calls[i].arg)
        /\ calls[i].arg.economic = EcoPattern(14, 0, Absent)
        /\ IsScored(calls[i].ret)
        /\ calls[i].ret.value.technical_score = 3
        /\ calls[i].ret.value.sentiment_score = -2
        /\ calls[i].ret.value.eco_score = 5
        /\ calls[i].ret.value.seasonality_score = 2

\* C2: in every report returned, the one of a failed computation included,
\* total_score is the sum of that report's technical_score, sentiment_score,
\* eco_score and seasonality_score.
C2_TotalIsSumOfFour ==
    \A i \in CallIds :
        calls[i].ret.kind = "return" =>
            LET v == calls[i].ret.value IN
            /\ ScoreKeys \subseteq DOMAIN v
            /\ v.total_score = v.technical_score + v.sentiment_score
                               + v.eco_score + v.seasonality_score

\* C5: the seasonality score is +2 above 1.0, +1 above 0.5 up to 1.0, -1 from
\* -1.0 to below -0.5, -2 below -1.0, and 0 from -0.5 to 0.5 or with no return given.
C5_SeasonalitySteps ==
    \A i \in CallIds :
        ValidObservation(calls[i].arg) =>
            LET seasonality == calls[i].arg.seasonality
                given == seasonality.t = "dict" /\ seasonality.current_month_avg_return.t = "num"
                r == seasonality.current_month_avg_return.n
                ret == calls[i].ret
            IN  /\ IsScored(ret)
                /\ ~given => ret.value.seasonality_score = 0
                /\ given /\ r > 100 => ret.value.seasonality_score = 2
                /\ given /\ 50 < r /\ r <= 100 => ret.value.seasonality_score = 1
                /\ given /\ -50 <= r /\ r <= 50 => ret.value.seasonality_score = 0
                /\ given /\ -100 <= r /\ r < -50 => ret.value.seasonality_score = -1
                /\ given /\ r < -100 => ret.value.seasonality_score = -2

\* a month that returned exactly 1.0 on average, scored +1
C5_Witness ==
    \E i \in CallIds :
        /\ calls[i].arg.seasonality = Seasonality(Num(100))
        /\ IsScored(calls[i].ret)
        /\ calls[i].ret.value.seasonality_score = 1

\* C6: the bias of a report is Very Bullish for a total of 8 or more, Bullish
\* from 3 to 7, Neutral from -2 to 2, Bearish from -7 to -3 and Very Bearish
\* for -8 or less, the total being the report's own total_score in [-12,12].
C6_BiasOfTotal ==
    \A i \in CallIds :
        calls[i].ret.kind = "return" =>
            LET total == calls[i].ret.value.total_score
                bias == calls[i].ret.value.bias
            IN  /\ total \in -12..12
                /\ total >= 8 => bias = "Very Bullish"
                /\ 3 <= total /\ total <= 7 => bias = "Bullish"
                /\ -2 <= total /\ total <= 2 => bias = "Neutral"
                /\ -7 <= total /\ total <= -3 => bias = "Bearish"
                /\ total <= -8 => bias = "Very Bearish"

\* a report with a total of exactly 8, labelled Very Bullish
C6_Witness ==
    \E i \in CallIds :
        /\ IsScored(calls[i].ret)
        /\ calls[i].ret.value.total_score = 8
        /\ calls[i].ret.value.bias = "Very Bullish"

\* C8: a call whose observation has an empty or a missing symbol fails with a
\* ValidationError and returns no report.
C8_EmptySymbolRaises ==
    \A i \in CallIds :
        (calls[i].arg.t = "dict" /\ calls[i].arg.symbol \in {Absent, Str("")}) =>
            /\ calls[i].ret.kind = "raise"
            /\ calls[i].ret.exc = "ValidationError"

\* a retail long_pct or a COT weekly change that is given and is no number
MalformedNumber(o) ==
    /\ o.t = "dict"
    /\ \/ o.retail.t = "dict" /\ o.retail.long_pct.t \notin {"absent", "num", "bool"}
       \/ o.cot.t = "dict" /\ o.cot.weekly_change.t \notin {"absent", "num", "bool"}

\* C9: a call whose observation has a malformed field (a long_pct or a weekly
\* change that is no number) fails with a ValidationError; it returns no
\* report with zero scores in place of the failed computation.
C9_MalformedInputRaises ==
    \A i \in CallIds :
        MalformedNumber(calls[i].arg) =>
            /\ calls[i].ret.kind = "raise"
            /\ calls[i].ret.exc = "ValidationError"

\* an observation with a symbol, each optional section and field well-typed or missing
Sparse(o) == ValidObservation(o) /\ o.symbol.t = "str" /\ o.symbol.s # ""

\* the observation with the documented neutral value in place of whatever is missing
Filled(o) ==
    LET technical == Get(o.technical, EmptyTechnical)
        cot == Get(o.cot, EmptyCot)
        retail == Get(o.retail, EmptyRetail)
        economic == Get(o.economic, EmptyEconomic)
        seasonality == Get(o.seasonality, EmptySeasonality)
    IN  AssetData(o.symbol,
            Technical(Get(technical.trend, Str("Neutral")),
                      Get(technical.above_20_sma, None), Get(technical.above_50_sma, None),
                      Get(technical.above_100_sma, None), Get(technical.above_200_sma, None),
                      Get(technical.volatility, Str("Normal"))),
            Cot(Get(cot.positioning, Str("Neutral")), Get(cot.weekly_change, Num(0))),
            Retail(Get(retail.long_pct, Num(5000)), retail.short_pct),
            Economic([k \in EcoKeySet |-> Get(economic.m[k], None)]),
            Seasonality(Get(seasonality.current_month_avg_return, Num(0))))

NothingGiven(o) ==
    /\ o.technical.t = "absent" /\ o.cot.t = "absent" /\ o.retail.t = "absent"
    /\ o.economic.t = "absent" /\ o.seasonality.t = "absent"

Scores(v) ==
    <<v.technical_score, v.sentiment_score, v.eco_score, v.seasonality_score,
      v.total_score, v.bias>>

\* C10: a call on an observation with a symbol and any of its optional
\* sections and fields missing returns a normal report, scored as if each
\* missing field held its neutral value (trend Neutral, SMA flag unknown,
\* volatility Normal, positioning Neutral, weekly change 0, long_pct 50, no
\* data for a metric, seasonal return 0); with nothing given, every score is
\* 0 and the bias Neutral.
C10_SparseInputIsNeutral ==
    \A i \in CallIds :
        Sparse(calls[i].arg) =>
            LET ret == calls[i].ret
                filled == calculate_asset_score(Filled(calls[i].arg), clock)
            IN  /\ IsScored(ret)
                /\ IsScored(filled)
                /\ Scores(ret.value) = Scores(filled.value)
                /\ NothingGiven(calls[i].arg) =>
                      Scores(ret.value) = <<0, 0, 0, 0, 0, "Neutral">>

\* an observation that gives a COT section and a retail section with no
\* long_pct, and nothing else, scored on its COT section alone
C10_Witness ==
    \E i \in CallIds :
        /\ Sparse(calls[i].arg)
        /\ calls[i].arg.cot = Cot(Str("Bullish"), Num(247))
        /\ calls[i].arg.retail = Retail(Absent, Absent)
        /\ calls[i].arg.technical.t = "absent"
        /\ calls[i].arg.economic.t = "absent"
        /\ calls[i].arg.seasonality.t = "absent"
        /\ IsScored(calls[i].ret)
        /\ Scores(calls[i].ret.value) = <<0, 2, 0, 0, 2, "Neutral">>

\* a report without its timestamp
Timeless(v) == [k \in DOMAIN v \ {"timestamp"} |-> v[k]]

SameButLongPct(o1, o2) ==
    /\ o1.t = "dict" /\ o2.t = "dict"
    /\ o1.retail.t = "dict" /\ o2.retail.t = "dict"
    /\ [o1 EXCEPT !.retail.long_pct = Absent] = [o2 EXCEPT !.retail.long_pct = Absent]

\* C4: with institutional positioning and weekly change fixed, a greater
\* retail long_pct in [0,100] never gives a greater sentiment_score.
C4_SentimentFallsWithLongPct ==
    \A i, j \in CallIds :
        LET a == calls[i].arg.retail.long_pct
            b == calls[j].arg.retail.long_pct
        IN  (/\ SameButLongPct(calls[i].arg, calls[j].arg)
             /\ a.t = "num" /\ b.t = "num"
             /\ 0 <= a.n /\ a.n <= b.n /\ b.n <= 10000) =>
                /\ IsScored(calls[i].ret)
                /\ IsScored(calls[j].ret)
                /\ calls[j].ret.value.sentiment_score <= calls[i].ret.value.sentiment_score

\* the same observation scored with 59 and then with 61 per cent long, the
\* second score the lower
C4_Witness ==
    \E i, j \in CallIds :
        /\ i < j
        /\ SameButLongPct(calls[i].arg, calls[j].arg)
        /\ calls[i].arg.retail.long_pct = Num(5900)
        /\ calls[j].arg.retail.long_pct = Num(6100)
        /\ IsScored(calls[i].ret)
        /\ IsScored(calls[j].ret)
        /\ calls[j].ret.value.sentiment_score < calls[i].ret.value.sentiment_score

----------------------------------------------------------------------------
(* Properties of rank_assets *)

PositionOf(list, symbol) == CHOOSE k \in 1..Len(list) : list[k].symbol = symbol

\* C7: rank_assets returns one report per asset, by total_score descending,
\* reports of equal total_score in the order of their assets in the input.
C7_RankedDescendingStable ==
    (ranked.kind = "ranked" /\ \A k \in 1..Len(ranked.arg) : ranked.arg[k].t = "dict") =>
        /\ ranked.ret.kind = "return"
        /\ LET input == ranked.arg
               output == ranked.ret.value
           IN  /\ Len(output) = Len(input)
               /\ \A k \in 1..Len(input) : \E m \in 1..Len(output) :
                     output[m].symbol = input[k].symbol
               /\ \A m, n \in 1..Len(output) :
                     m < n =>
                        /\ output[m].total_score >= output[n].total_score
                        /\ output[m].total_score = output[n].total_score =>
                              PositionOf(input, output[m].symbol)
                                 < PositionOf(input, output[n].symbol)

\* assets C, A, B with totals 5, 5, -1 come back as C, A, B
C7_Witness ==
    /\ ranked.kind = "ranked"
    /\ ranked.ret.kind = "return"
    /\ Len(ranked.arg) = 3
    /\ [k \in 1..3 |-> ranked.arg[k].symbol] = <<Str("C"), Str("A"), Str("B")>>
    /\ [k \in 1..3 |-> ranked.ret.value[k].symbol] = <<Str("C"), Str("A"), Str("B")>>
    /\ [k \in 1..3 |-> ranked.ret.value[k].total_score] = <<5, 5, -1>>

\* C11: rank_assets never aborts the batch: whatever element fails to score
\* (a malformed field or an element that is no mapping), the call returns one
\* slot per input asset, the failing asset's slot carries its error, and every
\* other asset's report is the one it gets when scored alone
Solo(o) == calculate_asset_score(o, clock)
FailsAlone(o) == Solo(o).kind = "raise" \/ ~IsScored(Solo(o))
C11_BatchNeverAborts ==
    ranked.kind = "ranked" =>
        /\ ranked.ret.kind = "return"
        /\ Len(ranked.ret.value) = Len(ranked.arg)
        /\ \A k \in 1..Len(ranked.arg) :
              LET o == ranked.arg[k] IN
              IF FailsAlone(o)
              THEN \E m \in 1..Len(ranked.ret.value) :
                      /\ "error" \in DOMAIN ranked.ret.value[m]
                      /\ o.t = "dict" => ranked.ret.value[m].symbol = Get(o.symbol, Str("UNKNOWN"))
              ELSE \E m \in 1..Len(ranked.ret.value) :
                      Timeless(ranked.ret.value[m]) = Timeless(Solo(o).value)

----------------------------------------------------------------------------
(* Properties of the technical scorer, stated on the calls made *)

Clamp(lo, hi, x) == IF x < lo THEN lo ELSE IF x > hi THEN hi ELSE x

\* the trend points and the SMA flags of a technical section, and their sum
\* in quarters of a point
TrendPoints(x) ==
    LET trend == Lower(Get(x.trend, Str("neutral")).s) IN
    IF trend = "bullish" THEN 2 ELSE IF trend = "bearish" THEN -2 ELSE 0
SmaFlags(x) == <<x.above_20_sma, x.above_50_sma, x.above_100_sma, x.above_200_sma>>
AboveCount(x) == Cardinality({k \in 1..4 : SmaFlags(x)[k] = T})
BelowCount(x) == Cardinality({k \in 1..4 : SmaFlags(x)[k] = F})
RawQuarters(x) == 4 * TrendPoints(x) + AboveCount(x) - BelowCount(x)
IsHigh(x) == x.volatility.t = "str" /\ Lower(x.volatility.s) = "high"

\* the integer nearest to r4/4, the even one of two equally near
HalfEvenOfQuarters(r4) ==
    LET q == r4 \div 4
        r == r4 % 4
    IN  IF r < 2 THEN q
        ELSE IF r > 2 THEN q + 1
        ELSE IF q % 2 = 0 THEN q ELSE q + 1

----------------------------------------------------------------------------
(* Properties of the sentiment scorer, stated on the calls made *)

\* the three votes of a sentiment input: the positioning, the weekly change
\* and the contrarian retail vote
PositioningVote(cot) ==
    LET p == Lower(Get(cot.positioning, Str("neutral")).s) IN
    IF p = "bullish" THEN 1 ELSE IF p = "bearish" THEN -1 ELSE 0
ChangeVote(cot) ==
    LET c == Get(cot.weekly_change, Num(0)).n IN
    IF c > 200 THEN 1 ELSE IF c < -200 THEN -1 ELSE 0
RetailVote(retail) ==
    LET r == Get(retail.long_pct, Num(5000)).n IN
    IF r > 6000 THEN -1 ELSE IF r < 4000 THEN 1 ELSE 0

\* C14: the sentiment score is the sum of the positioning vote, the weekly
\* change vote and the contrarian retail vote, clamped to [-2, 2]: Bearish
\* positioning, a weekly change of -3.0 and 75% long score -2, and three
\* agreeing votes score 2 or -2, never 3 or -3.
C14_SentimentIsClampedSum ==
    \A i \in CallIds :
        LET o == calls[i].arg
            votes == PositioningVote(o.cot) + ChangeVote(o.cot) + RetailVote(o.retail)
        IN  (o.cot.t = "dict" /\ o.retail.t = "dict") =>
                /\ IsScored(calls[i].ret)
                /\ calls[i].ret.value.sentiment_score = Clamp(-2, 2, votes)
                /\ (o.cot.positioning = Str("Bearish") /\ o.cot.weekly_change = Num(-300)
                        /\ o.retail.long_pct = Num(7500))
                       => calls[i].ret.value.sentiment_score = -2
                /\ votes = 3 => calls[i].ret.value.sentiment_score = 2
                /\ votes = -3 => calls[i].ret.value.sentiment_score = -2

\* Bearish positioning, -3.0 weekly change, 75% long: three bearish votes, -2
C14_Witness ==
    \E i \in CallIds :
        /\ calls[i].arg.cot = Cot(Str("Bearish"), Num(-300))
        /\ calls[i].arg.retail = Retail(Num(7500), Absent)
        /\ IsScored(calls[i].ret)
        /\ calls[i].ret.value.sentiment_score = -2

\* C20: the sentiment thresholds are strict on both sides: a weekly change of
\* exactly +2 or -2 contributes 0, and a retail long_pct of exactly 60 or 40
\* contributes 0; the nearest values beyond them contribute their vote.
C20_ThresholdsAreStrict ==
    \A i \in CallIds :
        LET o == calls[i].arg
            change == IF o.cot.weekly_change \in {Num(200), Num(-200)} THEN 0
                      ELSE IF o.cot.weekly_change \in {Num(201), Num(300)} THEN 1
                      ELSE IF o.cot.weekly_change \in {Num(-201), Num(-300)} THEN -1
                      ELSE 0
            retail == IF o.retail.long_pct \in {Num(6000), Num(4000)} THEN 0
                      ELSE IF o.retail.long_pct \in {Num(6001), Num(7500), Num(10000)} THEN -1
                      ELSE IF o.retail.long_pct \in {Num(3999), Num(0)} THEN 1
                      ELSE 0
        IN  (o.cot.t = "dict" /\ o.retail.t = "dict") =>
                /\ IsScored(calls[i].ret)
                /\ calls[i].ret.value.sentiment_score
                       = Clamp(-2, 2, PositioningVote(o.cot) + change + retail)

\* a weekly change of exactly +2 and a long_pct of exactly 60 under Bullish
\* positioning: only the positioning counts
C20_Witness ==
    \E i \in CallIds :
        /\ calls[i].arg.cot = Cot(Str("Bullish"), Num(200))
        /\ calls[i].arg.retail = Retail(Num(6000), Absent)
        /\ IsScored(calls[i].ret)
        /\ calls[i].ret.value.sentiment_score = 1

----------------------------------------------------------------------------
(* Properties of the economic scorer, stated on the calls made *)

\* the metrics of an economic section that beat, and those that miss
Beats(economic) ==
    {k \in EcoKeySet : economic.m[k].t = "num" /\ economic.m[k].n > 0}
Misses(economic) ==
    {k \in EcoKeySet : economic.m[k].t = "num" /\ economic.m[k].n < 0}

\* C15: the economic score is the number of the 14 metrics with a positive
\* surprise minus the number with a negative one, each metric counting the
\* same whatever its size, clamped to [-5, 5]: four positive and two negative
\* with the rest missing score 2, and fourteen positive score 5.
C15_EcoIsClampedCount ==
    \A i \in CallIds :
        LET e == calls[i].arg.economic
            P == Cardinality(Beats(e))
            N == Cardinality(Misses(e))
        IN  e.t = "dict" =>
                /\ IsScored(calls[i].ret)
                /\ calls[i].ret.value.eco_score = Clamp(-5, 5, P - N)
                /\ (P = 4 /\ N = 2) => calls[i].ret.value.eco_score = 2
                /\ P = Len(EcoKeys) => calls[i].ret.value.eco_score = 5

\* four beats and two misses, the other eight metrics missing: scored 2
C15_Witness ==
    \E i \in CallIds :
        LET e == calls[i].arg.economic IN
        /\ e.t = "dict"
        /\ Cardinality(Beats(e)) = 4 /\ Cardinality(Misses(e)) = 2
        /\ \A k \in EcoKeySet \ (Beats(e) \cup Misses(e)) : e.m[k] = Absent
        /\ IsScored(calls[i].ret)
        /\ calls[i].ret.value.eco_score = 2

----------------------------------------------------------------------------
(* The total and the range the module documents for it *)

\* C19: the total score of every report lies in the documented range from
\* -10 to +10
C19_TotalWithinDocumentedRange ==
    \A i \in CallIds :
        calls[i].ret.kind = "return" =>
            /\ calls[i].ret.value.total_score >= -10
            /\ calls[i].ret.value.total_score <= 10

\* C17: rank_assets has no interaction between assets: its output has the
\* length of its input and is a rearrangement of the reports of its assets,
\* each report being the one calculate_asset_score returns for that asset
\* alone, whatever the other assets of the batch and their order
C17_RankedReportsAreSoloReports ==
    (ranked.kind = "ranked" /\ \A k \in 1..Len(ranked.arg) : ranked.arg[k].t = "dict") =>
        /\ ranked.ret.kind = "return"
        /\ Len(ranked.ret.value) = Len(ranked.arg)
        /\ \E pi \in [1..Len(ranked.arg) -> 1..Len(ranked.arg)] :
              /\ \A j, k \in 1..Len(ranked.arg) : j # k => pi[j] # pi[k]
              /\ \A k \in 1..Len(ranked.arg) :
                    /\ Solo(ranked.arg[k]).kind = "return"
                    /\ Timeless(ranked.ret.value[pi[k]])
                           = Timeless(Solo(ranked.arg[k]).value)

\* three assets with the totals -1, 0 and 5 when scored alone come back in
\* another order, each with its own report
C17_Witness ==
    /\ ranked.kind = "ranked"
    /\ ranked.ret.kind = "return"
    /\ Len(ranked.arg) = 3
    /\ \A k \in 1..3 : ranked.arg[k].t = "dict" /\ IsScored(Solo(ranked.arg[k]))
    /\ [k \in 1..3 |-> Solo(ranked.arg[k]).value.total_score] = <<-1, 0, 5>>
    /\ [k \in 1..3 |-> Timeless(ranked.ret.value[k])]
           = [k \in 1..3 |-> Timeless(Solo(ranked.arg[4 - k]).value)]

----------------------------------------------------------------------------
(* The report and the observation it was made from *)

\* C18: the breakdown of a report is a copy of the inputs: whatever the
\* caller does to the observation afterwards and whatever is scored later,
\* every report returned is still, in every field, the report of its call
C18_ReportIsIndependentOfObservation ==
    \A i \in CallIds :
        IsScored(calls[i].ret) =>
            calls[i].ret = calculate_asset_score(calls[i].arg,
                                                 calls[i].ret.value.timestamp)

----------------------------------------------------------------------------
(* Concurrent calls *)

\* a step that changes a frame is a step of the thread whose frame it is:
\* no other thread has moved, and nothing of the engine is written
OnlyOwnFrameWritten ==
    /\ weights' = weights
    /\ \A f \in Threads :
          frames'[f] # frames[f] =>
              \A u \in Threads \ {f} : threads'[u] = threads[u]

\* C16: concurrent calls on one engine need no coordination: under every
\* interleaving of their steps, each call returns (or raises) what a call made
\* alone with the same observation returns, and no call writes anything that
\* another call reads
C16_ConcurrentCallsAreIndependent ==
    /\ [](\A t \in Threads :
             threads[t].pc = "done" =>
                 \E now \in 0..MaxClock :
                    threads[t].ret = calculate_asset_score(threads[t].arg, now))
    /\ [][OnlyOwnFrameWritten]_vars

\* a call has returned its report of total 5 while the call of another
\* thread, on another observation, is under way with its own local values
C16_Witness ==
    /\ threads[1].pc = "done" /\ IsScored(threads[1].ret)
    /\ threads[1].ret.value.total_score = 5
    /\ threads[2].pc = "report" /\ threads[2].arg.symbol = Str("C")
    /\ frames[1].technical_score = 3 /\ frames[2].technical_score = -2
    /\ frames[2].eco_score = -3

----------------------------------------------------------------------------
(* Relations between the technical scores of two observations *)

Abs(x) == IF x < 0 THEN -x ELSE x

\* two observations that differ in nothing but the named field of their
\* technical section
SameButTechnical(o1, o2, key) ==
    /\ o1.t = "dict" /\ o2.t = "dict"
    /\ o1.technical.t = "dict" /\ o2.technical.t = "dict"
    /\ [o1 EXCEPT !.technical[key] = Absent] = [o2 EXCEPT !.technical[key] = Absent]

\* C21: for every trend and every combination of SMA flags, the technical
\* score under High volatility is no greater in absolute value than the one
\* under Normal volatility on the same trend and flags, and never of the
\* opposite sign
C21_HighVolatilityOnlyReduces ==
    \A i, j \in CallIds :
        (/\ SameButTechnical(calls[i].arg, calls[j].arg, "volatility")
         /\ calls[i].arg.technical.volatility = Str("High")
         /\ calls[j].arg.technical.volatility = Str("Normal")) =>
            /\ IsScored(calls[i].ret)
            /\ IsScored(calls[j].ret)
            /\ Abs(calls[i].ret.value.technical_score)
                   <= Abs(calls[j].ret.value.technical_score)
            /\ calls[i].ret.value.technical_score * calls[j].ret.value.technical_score >= 0

\* a Bullish trend with four flags above scored 3 under Normal volatility and
\* then 2 under High
C21_Witness ==
    \E i, j \in CallIds :
        /\ j < i
        /\ SameButTechnical(calls[i].arg, calls[j].arg, "volatility")
        /\ calls[i].arg.technical.volatility = Str("High")
        /\ calls[j].arg.technical.volatility = Str("Normal")
        /\ IsScored(calls[i].ret) /\ IsScored(calls[j].ret)
        /\ calls[j].ret.value.technical_score = 3
        /\ calls[i].ret.value.technical_score = 2

\* C27: with volatility and the other inputs held fixed, changing one SMA
\* flag from below to unknown, from unknown to above or from below to above,
\* or the trend from Bearish to Neutral or from Neutral to Bullish, never
\* decreases the technical score
C27_TechnicalIsMonotone ==
    \A i, j \in CallIds :
        LET x == calls[i].arg.technical
            y == calls[j].arg.technical
        IN  (\/ \E key \in SmaKeys :
                   /\ SameButTechnical(calls[i].arg, calls[j].arg, key)
                   /\ FlagLevel(x[key]) < FlagLevel(y[key])
             \/ /\ SameButTechnical(calls[i].arg, calls[j].arg, "trend")
                /\ TrendLevel(x.trend) + 1 = TrendLevel(y.trend)) =>
                /\ IsScored(calls[i].ret)
                /\ IsScored(calls[j].ret)
                /\ calls[i].ret.value.technical_score <= calls[j].ret.value.technical_score

\* a Bullish trend with two flags above and two unknown scores 2 (the tie
\* 2.5), and with a third flag raised from unknown to above scores 3
C27_Witness ==
    \E i, j \in CallIds, key \in SmaKeys :
        /\ i < j
        /\ SameButTechnical(calls[i].arg, calls[j].arg, key)
        /\ calls[i].arg.technical[key] = Absent
        /\ calls[j].arg.technical[key] = T
        /\ IsScored(calls[i].ret) /\ IsScored(calls[j].ret)
        /\ calls[i].ret.value.technical_score = 2
        /\ calls[j].ret.value.technical_score = 3

----------------------------------------------------------------------------
(* The bias label as a function of the total *)

BiasLabels == <<"Very Bearish", "Bearish", "Neutral", "Bullish", "Very Bullish">>
BiasRank(label) == CHOOSE r \in 1..Len(BiasLabels) : BiasLabels[r] = label

\* C26: the bias label is monotone in the total: of two reports, the one with
\* the smaller or equal total has the smaller or equal label in the order
\* Very Bearish < Bearish < Neutral < Bullish < Very Bullish; and each of the
\* five labels is the label of some total in [-12, 12]
C26_BiasIsMonotone ==
    /\ \A i, j \in CallIds :
          (/\ IsScored(calls[i].ret) /\ IsScored(calls[j].ret)
           /\ calls[i].ret.value.total_score <= calls[j].ret.value.total_score) =>
              BiasRank(calls[i].ret.value.bias) <= BiasRank(calls[j].ret.value.bias)
    /\ \A r \in 1..Len(BiasLabels) :
          \E total \in -12..12 : _determine_bias(total) = BiasLabels[r]

\* a total of -12 labelled Very Bearish and then a total of 12 labelled Very
\* Bullish
C26_Witness ==
    \E i, j \in CallIds :
        /\ i < j
        /\ IsScored(calls[i].ret) /\ IsScored(calls[j].ret)
        /\ calls[i].ret.value.total_score = -12
        /\ calls[i].ret.value.bias = "Very Bearish"
        /\ calls[j].ret.value.total_score = 12
        /\ calls[j].ret.value.bias = "Very Bullish"

----------------------------------------------------------------------------
(* The weights of the engine *)

\* a step that scores or ranks leaves the weights as they are
ScoringKeepsWeights ==
    (calls' # calls \/ ranked' # ranked) => weights' = weights

\* C22: the weights of the engine are inert: whatever values self.weights
\* holds, a call returns for the same observation the same report in every
\* field (but the timestamp), rank_assets returns the same reports, and no
\* scoring operation writes self.weights
C22_WeightsAreInert ==
    /\ [](/\ \A i, j \in CallIds :
                calls[i].arg = calls[j].arg =>
                    Timeless(calls[i].ret.value) = Timeless(calls[j].ret.value)
          /\ (ranked.kind = "ranked" /\ calls # <<>>) =>
                Timeless(ranked.ret.value[1]) = Timeless(calls[1].ret.value))
    /\ [][ScoringKeepsWeights]_vars

\* an observation of total 10 scored under the weights of the constructor
\* and again, with the same report, after every weight was set to 0
C22_Witness ==
    /\ Len(calls) = 2
    /\ weights = [technical |-> 0, sentiment |-> 0, eco |-> 0]
    /\ calls[1].ret.value.total_score = 10
    /\ calls[2].ret.value.total_score = 10
    /\ calls[2].ret.value.eco_score = 3

----------------------------------------------------------------------------
(* Entries of the economic mapping that carry no surprise *)

\* two economic sections that agree on every metric that carries a surprise
\* in either: they differ at most in metrics that are missing, None or 0, and
\* in entries under other names
SameSurprises(e1, e2) ==
    /\ e1.t = "dict" /\ e2.t = "dict"
    /\ \A k \in EcoKeySet :
          \/ e1.m[k] = e2.m[k]
          \/ e1.m[k] \in NoSurprise /\ e2.m[k] \in NoSurprise

\* C24: a metric that is absent, None or exactly 0 contributes nothing to the
\* economic score, and neither does an entry whose name is none of the 14
\* metrics: adding, removing or changing such entries never changes eco_score
C24_NoSurpriseEntriesAreInert ==
    \A i, j \in CallIds :
        SameSurprises(calls[i].arg.economic, calls[j].arg.economic) =>
            /\ IsScored(calls[i].ret)
            /\ IsScored(calls[j].ret)
            /\ calls[i].ret.value.eco_score = calls[j].ret.value.eco_score

\* four beats and two misses score 2, and still 2 after the caller has added
\* an entry "m2_surprise" of 5.0
C24_Witness ==
    \E i, j \in CallIds :
        /\ i < j
        /\ SameSurprises(calls[i].arg.economic, calls[j].arg.economic)
        /\ calls[i].arg.economic.m["m2_surprise"] = Absent
        /\ calls[j].arg.economic.m["m2_surprise"] = Num(500)
        /\ IsScored(calls[i].ret) /\ IsScored(calls[j].ret)
        /\ calls[i].ret.value.eco_score = 2
        /\ calls[j].ret.value.eco_score = 2

----------------------------------------------------------------------------
(* The report of an asset that could not be scored *)

\* one of the four scorers raises on the sections of the observation
ScorerRaises(o) ==
    \/ _calculate_technical_score(Get(o.technical, EmptyTechnical)).exc # ""
    \/ _calculate_sentiment_score(Get(o.cot, EmptyCot), Get(o.retail, EmptyRetail)).exc # ""
    \/ _calculate_eco_score(Get(o.economic, EmptyEconomic)).exc # ""
    \/ _calculate_seasonality_score(Get(o.seasonality, EmptySeasonality)).exc # ""

\* the all-zero report of an asset: its symbol, four zeros, Neutral, a message
IsZeroReportOf(v, o) ==
    /\ v.symbol = Get(o.symbol, Str("UNKNOWN"))
    /\ v.total_score = 0 /\ v.technical_score = 0
    /\ v.sentiment_score = 0 /\ v.eco_score = 0
    /\ v.bias = "Neutral"
    /\ "error" \in DOMAIN v /\ v.error # ""

\* C23: when one of the four scorers raises, the call does not raise: it
\* returns a report with the symbol, total and sub-scores 0, bias Neutral and
\* an error message, whatever the scorers before the failing one computed;
\* and rank_assets places that report as a report of total 0
C23_FailureYieldsZeroReport ==
    /\ \A i \in CallIds :
          (calls[i].arg.t = "dict" /\ ScorerRaises(calls[i].arg)) =>
              /\ calls[i].ret.kind = "return"
              /\ IsZeroReportOf(calls[i].ret.value, calls[i].arg)
    /\ (ranked.kind = "ranked" /\ \A k \in 1..Len(ranked.arg) : ranked.arg[k].t = "dict") =>
          /\ ranked.ret.kind = "return"
          /\ Len(ranked.ret.value) = Len(ranked.arg)
          /\ \A k \in 1..Len(ranked.arg) :
                ScorerRaises(ranked.arg[k]) =>
                    \E m \in 1..Len(ranked.ret.value) :
                       /\ IsZeroReportOf(ranked.ret.value[m], ranked.arg[k])
                       /\ \A n \in 1..Len(ranked.ret.value) :
                             /\ n < m => ranked.ret.value[n].total_score >= 0
                             /\ n > m => ranked.ret.value[n].total_score <= 0

\* an asset whose technical, COT and economic sections score 3, 2 and 5 and
\* whose retail long_pct is a string gets the all-zero report, and is ranked
\* between an asset of total 5 and one of total -1
C23_Witness ==
    /\ \E i \in CallIds :
          /\ calls[i].arg.retail = Retail(Str("75%"), Absent)
          /\ calls[i].arg.economic = EcoPattern(6, 0, Absent)
          /\ calls[i].ret.kind = "return"
          /\ IsZeroReportOf(calls[i].ret.value, calls[i].arg)
    /\ ranked.kind = "ranked"
    /\ ranked.ret.kind = "return"
    /\ ranked.arg[1] = asset_data
    /\ [k \in 1..3 |-> ranked.ret.value[k].total_score] = <<5, 0, -1>>
    /\ [k \in 1..3 |-> ranked.ret.value[k].symbol] = <<Str("C"), Str("A"), Str("B")>>

----------------------------------------------------------------------------
(* The score of an observation and of its mirror image *)

MirrorBias(label) == BiasLabels[Len(BiasLabels) + 1 - BiasRank(label)]

\* C25: the scoring is sign-symmetric: the mirror image of an observation
\* (trend and positioning reversed, each known SMA flag inverted, weekly
\* change, economic surprises and seasonality return negated, long_pct
\* replaced by 100 - long_pct, volatility unchanged) has the negated four
\* sub-scores and total, and the mirror label as bias
C25_MirrorNegatesScores ==
    \A i, j \in CallIds :
        calls[j].arg = Mirror(calls[i].arg) =>
            /\ IsScored(calls[i].ret)
            /\ IsScored(calls[j].ret)
            /\ LET v == calls[i].ret.value
                   w == calls[j].ret.value
               IN  /\ w.technical_score = -v.technical_score
                   /\ w.sentiment_score = -v.sentiment_score
                   /\ w.eco_score = -v.eco_score
                   /\ w.seasonality_score = -v.seasonality_score
                   /\ w.total_score = -v.total_score
                   /\ w.bias = MirrorBias(v.bias)

\* an observation of total 12, Very Bullish, and then its mirror image of
\* total -12, Very Bearish
C25_Witness ==
    \E i, j \in CallIds :
        /\ i < j
        /\ calls[j].arg = Mirror(calls[i].arg)
        /\ IsScored(calls[i].ret) /\ IsScored(calls[j].ret)
        /\ calls[i].ret.value.total_score = 12
        /\ calls[i].ret.value.bias = "Very Bullish"
        /\ calls[j].ret.value.total_score = -12
        /\ calls[j].ret.value.bias = "Very Bearish"


\* C29: in get_real_trade_analysis the technical score is 0, 1.5 or 3, the
\* COT score and the retail score lie in [-2, 2], so the total is at least
\* -4 and the bias returned is never "STRONG SELL".
C29_NeverStrongSell ==
    master.out.kind = "return" =>
        LET v == master.out.v
            b == v.breakdown
        IN  /\ b.technical.score \in {0, 150, 300}
            /\ b.institutional.score \in -200..200
            /\ b.retail.score \in -200..200
            /\ v.score = b.technical.score + b.institutional.score + b.retail.score
            /\ v.score >= -400
            /\ v.bias # "STRONG SELL"
            /\ v.bias = "STRONG BUY" <=> v.score >= 500

\* an analysis that came back "STRONG BUY": all of the technical score on
\* top of a COT score of 2
C29_Witness ==
    /\ master.out.kind = "return"
    /\ master.out.v.bias = "STRONG BUY"
    /\ master.out.v.breakdown.technical.score = 300
    /\ master.out.v.breakdown.institutional.score = 200


\* the totals _calculate_complex_scores can add up to
FullTotals == {-3, -1, 1, 3, 5}

====
